---- MODULE Spec2Model ----
(***************************************************************************)
(* docker-on-top: the volume state machine of the overlay volume driver.   *)
(*                                                                         *)
(* The state is the on-disk tree of every volume (metadata.json, upper/,   *)
(* activemounts/ with its marker files, workdir/, mountpoint/), the        *)
(* kernel's overlay mounts at mountpoint/, the flock(2) locks held on       *)
(* activemounts/, and the position of every Mount/Unmount request that is  *)
(* being served.  Mount and Unmount are modelled statement by statement    *)
(* (one action per system call or helper call of driver.go), because       *)
(* requests are served concurrently.                                       *)
(***************************************************************************)
EXTENDS Naturals, Integers, Sequences, FiniteSets, TLC

\* ------------------------------------------------------------- bounds
MaxFaults == 1   \* system calls that fail for an environmental reason
MaxStack  == 2   \* overlays stacked on one mountpoint/
MaxUses   == 2   \* successful Mounts of one ID not yet matched by Unmount
MaxHist   == 5   \* length of the recorded sequential request history
MaxCrashes == 1  \* deaths of the driver process

Procs   == {1, 2}     \* request slots: the requests served concurrently
IDs     == {1, 2}     \* the mount request IDs the daemon uses
Volumes == {"v1", "v2", "x.y-z_1"}   \* the volume names
Served  == {"v1"}         \* the volumes the daemon uses, where it uses one
Files   == {"b"}          \* file names containers write into the volume

\* ------------------------------------------------- on-disk volume tree
\* VolumeInfo as stored in metadata.json; NoMeta: the file does not exist.
VolumeInfo == [BaseDirPath : {"/base"}, Volatile : BOOLEAN]
NoMeta     == [BaseDirPath |-> "", Volatile |-> FALSE]

\* A volume's main directory with everything below it.
\*   main        the main directory exists
\*   metadata    contents of metadata.json (NoMeta when absent)
\*   upperDir    upper/ exists;        upper    the files in it
\*   amDir       activemounts/ exists; markers  the marker files in it
\*   workdir     workdir/ exists
\*   mountpoint  mountpoint/ exists
NoTree == [main |-> FALSE, metadata |-> NoMeta, upperDir |-> FALSE, upper |-> {},
           amDir |-> FALSE, markers |-> {}, workdir |-> FALSE, mountpoint |-> FALSE]

VARIABLES
    tree,      \* tree[v]: the on-disk tree of volume v
    kmounts,   \* kmounts[v]: the overlays mounted at v's mountpoint/, bottom first;
               \*   TRUE when the overlay's upperdir still is the directory at upper/
    flocked,   \* the requests that hold flock(LOCK_EX) on their handle of the directory
               \*   that is at activemounts/ (a lock on a directory that was removed
               \*   from there excludes nobody and is not counted)
    opened,    \* the requests whose lockedFile has an open handle of activemounts/
    pc,        \* pc[p]: the statement request slot p is at ("idle": no request)
    cvol,      \* cvol[p]: request.Name
    cid,       \* cid[p]: request.ID
    thisVol,   \* thisVol[p]: the VolumeInfo Mount read from metadata.json
    cerr,      \* cerr[p]: Unmount's `err` from volumeTreePostUnmount (TRUE: an error)
    listed,    \* response.Volumes of the List that returned in the last step ({} when
               \*   the last step returned from no List, or with an error)
    createErr, \* createErr[p]: what the Create that request slot p served step by step
               \*   returned ("none": it has not returned, or p served no such Create)
    result,    \* what the request that returned in the last step returned ("none" when
               \*   the last step returned from no request); after NewDockerOnTop,
               \*   what it logged about the volumes it found
    faults,    \* number of system calls failed by the environment so far
    peekFailed, \* TRUE once a listing of activemounts/ has failed
    down,      \* the driver process died and NewDockerOnTop has not completed since
    crashes,   \* number of deaths of the driver process so far
    uses,      \* uses[v][id]: Mounts of id that returned success, minus Unmounts issued
    liveData,  \* liveData[v]: files written since the volume last went from unused to used
    hist,      \* hist[v]: while histOn[v], the requests completed on v, from its Create
               \*   on, each as <<operation, ID (for Create: 1 when volatile), result>>
    histOn     \* histOn[v]: requests were served one at a time, without failed system
               \*   calls, and no more than MaxHist of them

fsvars    == <<tree, kmounts>>
procvars  == <<flocked, opened, pc, cvol, cid, thisVol, cerr, result, listed, createErr>>
ghostvars == <<faults, peekFailed, uses, liveData, hist, histOn>>
sysvars   == <<down, crashes>>
vars      == <<tree, kmounts, flocked, opened, pc, cvol, cid, thisVol, cerr, result, listed,
               createErr,
               faults, peekFailed, down, crashes, uses, liveData, hist, histOn>>

Results == {"none", "ok", "no such volume", "internal error", "open error",
            "flock error", "mount error",
            "critical error", "unmount error", "cleanup error",
            "boot cleaned", "boot clean", "boot busy", "boot error",
            "created", "volume already exists", "create error",
            "create error, destroy failed",
            "name has slashes", "illegal name", "invalid option", "no base",
            "base not absolute", "base has comma or colon", "base does not exist",
            "base inaccessible", "invalid volatile",
            "removed", "removed after unmount", "remove error", "remove unmount error", "remove mountpoint error",
            "found", "get no such volume", "get error", "path", "listed", "list error"}

CreatePcs  == {"c_main", "c_upper", "c_activemounts", "c_write"}
MountPcs   == {"m_info", "m_open", "m_peek", "m_premount", "m_mount", "m_marker"}
UnmountPcs == {"u_open", "u_peek", "u_umount", "u_post", "u_marker",
               "d_marker", "d_peek", "d_umount", "d_post"}

TypeOK ==
    /\ tree \in [Volumes -> [main : BOOLEAN, metadata : VolumeInfo \cup {NoMeta},
                             upperDir : BOOLEAN, upper : SUBSET Files,
                             amDir : BOOLEAN, markers : SUBSET IDs,
                             workdir : BOOLEAN, mountpoint : BOOLEAN]]
    /\ \A v \in Volumes : kmounts[v] \in Seq(BOOLEAN) /\ Len(kmounts[v]) <= MaxStack
    /\ flocked \subseteq Procs
    /\ opened \subseteq Procs
    /\ pc \in [Procs -> {"idle"} \cup MountPcs \cup UnmountPcs \cup CreatePcs]
    /\ cvol \in [Procs -> Volumes]
    /\ cid \in [Procs -> IDs]
    /\ thisVol \in [Procs -> VolumeInfo \cup {NoMeta}]
    /\ cerr \in [Procs -> BOOLEAN]
    /\ result \in Results
    /\ listed \in SUBSET Volumes
    /\ createErr \in [Procs -> Results]
    /\ faults \in 0..MaxFaults
    /\ peekFailed \in BOOLEAN
    /\ down \in BOOLEAN
    /\ crashes \in 0..MaxCrashes
    /\ uses \in [Volumes -> [IDs -> 0..MaxUses]]
    /\ liveData \in [Volumes -> SUBSET Files]
    /\ histOn \in [Volumes -> BOOLEAN]
    /\ \A v \in Volumes : Len(hist[v]) <= MaxHist

\* The state after NewDockerOnTop on an empty data root: no volumes, nothing mounted.
Init ==
    /\ tree = [v \in Volumes |-> NoTree]
    /\ kmounts = [v \in Volumes |-> <<>>]
    /\ flocked = {}
    /\ opened = {}
    /\ pc = [p \in Procs |-> "idle"]
    /\ cvol = [p \in Procs |-> "v1"]
    /\ cid = [p \in Procs |-> 1]
    /\ thisVol = [p \in Procs |-> NoMeta]
    /\ cerr = [p \in Procs |-> FALSE]
    /\ result = "none"
    /\ listed = {}
    /\ createErr = [p \in Procs |-> "none"]
    /\ faults = 0
    /\ peekFailed = FALSE
    /\ down = FALSE
    /\ crashes = 0
    /\ uses = [v \in Volumes |-> [i \in IDs |-> 0]]
    /\ liveData = [v \in Volumes |-> {}]
    /\ hist = [v \in Volumes |-> <<>>]
    /\ histOn = [v \in Volumes |-> FALSE]

\* ------------------------------------------------------------ helpers
Busy(v) == {p \in Procs : pc[p] # "idle" /\ cvol[p] = v}
Idle(v) == Busy(v) = {}
InUse(v) == \E i \in IDs : uses[v][i] > 0
Mounted(v) == kmounts[v] # <<>>

\* A system call fails for an environmental reason (f # "none") at most MaxFaults times.
Inject(f) ==
    /\ IF f = "none" THEN faults' = faults ELSE faults < MaxFaults /\ faults' = faults + 1
    /\ peekFailed' = (peekFailed \/ f = "readdir")

\* The call history of v: extended by `entry` (<<>> or one completed request).
Record(v, f, entry) ==
    LET on == histOn[v] /\ f = "none" /\ Len(hist[v]) + Len(entry) <= MaxHist
    IN  /\ histOn' = [histOn EXCEPT ![v] = on]
        /\ hist' = [hist EXCEPT ![v] = IF on THEN hist[v] \o entry ELSE <<>>]

\* --------------------------------------------------- volume-tree manager
\* A variant of volumeTreeDestroy that leaves the main directory in place.
DestroyKeepsMain(t, busy, fails) == t

\* volumeTreeDestroy: RemoveAll of the main directory.  It removes everything it
\* can: a mountpoint/ that carries a mount (busy) cannot be removed (EBUSY) and
\* stays, with the main directory above it.  A RemoveAll that fails for another
\* reason (fails) removes nothing.
volumeTreeDestroy(t, busy, fails) ==
    IF fails THEN t
    ELSE IF busy /\ t.mountpoint THEN [NoTree EXCEPT !.main = TRUE, !.mountpoint = TRUE]
    ELSE NoTree

\* The system calls of volumeTreeCreate and writeVolumeInfo that the environment
\* can fail.
CreateFaults == {"none", "mkdir main", "mkdir upper", "mkdir activemounts", "write metadata"}

\* volumeTreeCreate: Mkdir of the main directory, then of upper/ and activemounts/;
\* when one of the latter fails the tree is destroyed again (destroyFails: that
\* RemoveAll fails too, which is only logged).
\* err: "exist" when the main directory already exists, "error" for another failure.
volumeTreeCreate(t, f, destroyFails) ==
    LET main == [t EXCEPT !.main = TRUE]
        withUpper == [main EXCEPT !.upperDir = TRUE, !.upper = {}]
        whole == [withUpper EXCEPT !.amDir = TRUE, !.markers = {}]
    IN  IF t.main THEN [t |-> t, err |-> "exist"]
        ELSE IF f = "mkdir main" THEN [t |-> t, err |-> "error"]
        ELSE IF f = "mkdir upper"
        THEN [t |-> volumeTreeDestroy(main, FALSE, destroyFails), err |-> "error"]
        ELSE IF f = "mkdir activemounts"
        THEN [t |-> volumeTreeDestroy(withUpper, FALSE, destroyFails), err |-> "error"]
        ELSE [t |-> whole, err |-> "nil"]

\* writeVolumeInfo: WriteFile of metadata.json.
writeVolumeInfo(t, info) == [t EXCEPT !.metadata = info]

\* getVolumeInfo: ReadFile of metadata.json; NoMeta stands for the not-exist error.
getVolumeInfo(t) == IF t.main THEN t.metadata ELSE NoMeta

\* The system calls of volumeTreePreMount that the environment can fail.
PreMountFaults(discardUpper) ==
    {"none", "mkdir mountpoint", "mkdir workdir"}
        \cup (IF discardUpper THEN {"removeall upper", "mkdir upper"} ELSE {})

\* volumeTreePreMount: Mkdir mountpoint/ and workdir/ (existing ones are fine; when
\* one Mkdir fails, the directories made by this call are removed again); then, for
\* discardUpper, RemoveAll upper/ and Mkdir upper/.
\* err: an error is returned; wiped: the directory at upper/ was removed.
volumeTreePreMountSteps(t, discardUpper, f) ==
    LET err1 == IF f = "mkdir mountpoint" \/ ~t.main THEN "fail"
                ELSE IF t.mountpoint THEN "exist" ELSE "nil"
        err2 == IF f = "mkdir workdir" \/ ~t.main THEN "fail"
                ELSE IF t.workdir THEN "exist" ELSE "nil"
        made == [t EXCEPT !.mountpoint = (t.mountpoint \/ err1 = "nil"),
                          !.workdir = (t.workdir \/ err2 = "nil")]
        cleaned == [made EXCEPT
                      !.mountpoint = IF err1 = "nil" THEN FALSE ELSE made.mountpoint,
                      !.workdir = IF err2 = "nil" THEN FALSE ELSE made.workdir]
        removed == [made EXCEPT !.upperDir = FALSE, !.upper = {}]
    IN  IF err1 = "fail" \/ err2 = "fail"
        THEN [t |-> cleaned, err |-> TRUE, wiped |-> FALSE]
        ELSE IF ~discardUpper
        THEN [t |-> made, err |-> FALSE, wiped |-> FALSE]
        ELSE IF f = "removeall upper"
        THEN [t |-> made, err |-> TRUE, wiped |-> FALSE]
        ELSE IF f = "mkdir upper"
        THEN [t |-> removed, err |-> TRUE, wiped |-> TRUE]
        ELSE [t |-> [removed EXCEPT !.upperDir = TRUE], err |-> FALSE, wiped |-> TRUE]

\* A variant of volumeTreePreMount that discards upper/ whatever the volume's kind.
PreMountAlwaysDiscards(t, discardUpper, f) == volumeTreePreMountSteps(t, TRUE, f)

\* A variant of volumeTreePreMount that never discards upper/.
PreMountNeverDiscards(t, discardUpper, f) == volumeTreePreMountSteps(t, FALSE, f)

\* A variant of volumeTreePreMount that removes mountpoint/ and workdir/ after a
\* failure, whoever made them.
PreMountRemovesBoth(t, discardUpper, f) ==
    LET r == volumeTreePreMountSteps(t, discardUpper, f)
    IN  IF r.err /\ ~r.wiped /\ f # "removeall upper"
        THEN [r EXCEPT !.t = [r.t EXCEPT !.mountpoint = FALSE, !.workdir = FALSE]]
        ELSE r

volumeTreePreMount(t, discardUpper, f) == volumeTreePreMountSteps(t, discardUpper, f)

\* A variant of volumeTreePostUnmount that leaves workdir/ behind.
PostUnmountKeepsWorkdir(t, busy, f) ==
    LET err1 == f = "rm mountpoint" \/ ~t.mountpoint \/ busy
    IN  [t |-> [t EXCEPT !.mountpoint = IF err1 THEN t.mountpoint ELSE FALSE], err |-> err1]

\* A variant of volumeTreePostUnmount that removes metadata.json with the directories.
PostUnmountDropsMetadata(t, busy, f) ==
    LET err1 == f = "rm mountpoint" \/ ~t.mountpoint \/ busy
        err2 == f = "rm workdir"
    IN  [t |-> [t EXCEPT !.mountpoint = IF err1 THEN t.mountpoint ELSE FALSE,
                         !.workdir = IF err2 THEN t.workdir ELSE FALSE,
                         !.metadata = NoMeta],
         err |-> err1 \/ err2]

\* volumeTreePostUnmount: Remove mountpoint/ (fails when it is absent or still a
\* mountpoint: busy) and RemoveAll workdir/, each attempted whatever the other did.
volumeTreePostUnmount(t, busy, f) ==
    LET err1 == f = "rm mountpoint" \/ ~t.mountpoint \/ busy
        err2 == f = "rm workdir"
    IN  [t |-> [t EXCEPT !.mountpoint = IF err1 THEN t.mountpoint ELSE FALSE,
                         !.workdir = IF err2 THEN t.workdir ELSE FALSE],
         err |-> err1 \/ err2]

\* The system calls of volumeTreeOnBootReset that the environment can fail.
BootResetFaults ==
    {"none", "rm mountpoint", "removeall activemounts", "mkdir activemounts",
     "removeall workdir"}

\* A variant of volumeTreeOnBootReset that removes workdir/ before it replaces
\* activemounts/.
BootResetWorkdirFirst(t, busy, f) ==
    LET t1 == [t EXCEPT !.mountpoint = FALSE]
        t2 == [t1 EXCEPT !.workdir = FALSE]
        t3 == [t2 EXCEPT !.amDir = FALSE, !.markers = {}]
        t4 == [t3 EXCEPT !.amDir = TRUE]
    IN  IF ~t.mountpoint THEN [t |-> t, err |-> "notexist"]
        ELSE IF busy THEN [t |-> t, err |-> "EBUSY"]
        ELSE IF f = "rm mountpoint" THEN [t |-> t, err |-> "error"]
        ELSE IF f = "removeall workdir" THEN [t |-> t1, err |-> "error"]
        ELSE IF f = "removeall activemounts" THEN [t |-> t2, err |-> "error"]
        ELSE IF f = "mkdir activemounts" THEN [t |-> t3, err |-> "error"]
        ELSE [t |-> t4, err |-> "nil"]

\* A variant of volumeTreeOnBootReset that goes on when mountpoint/ cannot be removed.
BootResetRegardless(t, busy, f) ==
    LET t1 == IF busy THEN t ELSE [t EXCEPT !.mountpoint = FALSE]
        t2 == [t1 EXCEPT !.amDir = FALSE, !.markers = {}]
        t3 == [t2 EXCEPT !.amDir = TRUE]
        t4 == [t3 EXCEPT !.workdir = FALSE]
    IN  IF f = "rm mountpoint" THEN [t |-> t, err |-> "error"]
        ELSE IF f = "removeall activemounts" THEN [t |-> t1, err |-> "error"]
        ELSE IF f = "mkdir activemounts" THEN [t |-> t2, err |-> "error"]
        ELSE IF f = "removeall workdir" THEN [t |-> t3, err |-> "error"]
        ELSE [t |-> t4, err |-> IF busy THEN "EBUSY" ELSE "nil"]

\* volumeTreeOnBootReset: Remove mountpoint/, then RemoveAll and Mkdir of
\* activemounts/, then RemoveAll workdir/; the first error ends it.  Remove of
\* mountpoint/ fails with "notexist" when it is absent and with "EBUSY" when it
\* carries a mount (busy).
volumeTreeOnBootReset(t, busy, f) ==
    LET t1 == [t EXCEPT !.mountpoint = FALSE]
        t2 == [t1 EXCEPT !.amDir = FALSE, !.markers = {}]
        t3 == [t2 EXCEPT !.amDir = TRUE]
        t4 == [t3 EXCEPT !.workdir = FALSE]
    IN  IF ~t.mountpoint THEN [t |-> t, err |-> "notexist"]
        ELSE IF busy THEN [t |-> t, err |-> "EBUSY"]
        ELSE IF f = "rm mountpoint" THEN [t |-> t, err |-> "error"]
        ELSE IF f = "removeall activemounts" THEN [t |-> t1, err |-> "error"]
        ELSE IF f = "mkdir activemounts" THEN [t |-> t2, err |-> "error"]
        ELSE IF f = "removeall workdir" THEN [t |-> t3, err |-> "error"]
        ELSE [t |-> t4, err |-> "nil"]

\* volumeTreeOnBootReset got as far as removing the directory at activemounts/: the
\* handles that requests hold on it, and their locks, are of the removed directory.
ActivemountsReplaced(t, busy, f) ==
    t.mountpoint /\ ~busy /\ f \notin {"rm mountpoint", "removeall activemounts"}

\* -------------------------------------------------------- lockedFile
\* What ReadDir on the handle of request p lists: the markers, or nothing when the
\* handle is of a directory that was removed (the request is past lockedFile.Open
\* and its lock is not on the directory at activemounts/).
Listing(p) ==
    IF p \in flocked THEN tree[cvol[p]] ELSE [tree[cvol[p]] EXCEPT !.markers = {}]

\* A variant of flock that never waits.
FlockNeverBlocks(p) == TRUE

\* A variant of flock under which Mounts do not exclude each other.
FlockSharedAmongMounts(p) ==
    \A q \in flocked : q = p \/ cvol[q] # cvol[p] \/ (pc[q] \in MountPcs /\ pc[p] \in MountPcs)

\* A variant of flock with one lock for all volumes.
FlockOneForAll(p) == \A q \in flocked : q = p

\* flock(LOCK_EX) on the handle of activemounts/ returns once no other handle of
\* the same directory holds the lock.
CanFlock(p) == \A q \in flocked : q = p \/ cvol[q] # cvol[p]

\* A variant of lockedFile.Open that leaves the file open when flock failed.
OpenLeaksHandle(dirExists, f) ==
    IF ~dirExists THEN [err |-> "open error", open |-> FALSE, locked |-> FALSE]
    ELSE IF f = "flock" THEN [err |-> "flock error", open |-> TRUE, locked |-> FALSE]
    ELSE [err |-> "nil", open |-> TRUE, locked |-> TRUE]

\* lockedFile.Open: os.Open of the directory, then syscall.Flock(LOCK_EX) on the
\* handle; when Flock fails the file is closed again.  err: nil, or the internal
\* error of the step that failed; open, locked: what the lockedFile holds when
\* Open returns.
lockedFileOpen(dirExists, f) ==
    IF ~dirExists THEN [err |-> "open error", open |-> FALSE, locked |-> FALSE]
    ELSE IF f = "flock" THEN [err |-> "flock error", open |-> FALSE, locked |-> FALSE]
    ELSE [err |-> "nil", open |-> TRUE, locked |-> TRUE]

\* ----------------------------------------------- leaving a request
\* A request stays at its statement; `f` is the system call failed in this step.
Stay(p, f) ==
    /\ result' = "none"
    /\ listed' = {}
    /\ UNCHANGED createErr
    /\ Inject(f)
    /\ Record(cvol[p], f, <<>>)
    /\ UNCHANGED <<uses, liveData, sysvars>>

\* A request moves on to statement `next`.
Goto(p, next, f) ==
    /\ pc' = [pc EXCEPT ![p] = next]
    /\ Stay(p, f)

\* The request returns `res`.
Leave(p, op, res, f) ==
    LET v == cvol[p]
        mounted == op = "Mount" /\ res = "ok"
    IN  /\ pc' = [pc EXCEPT ![p] = "idle"]
        /\ result' = res
        /\ listed' = {}
        /\ UNCHANGED createErr
        /\ cvol' = [cvol EXCEPT ![p] = "v1"]
        /\ cid' = [cid EXCEPT ![p] = 1]
        /\ thisVol' = [thisVol EXCEPT ![p] = NoMeta]
        /\ cerr' = [cerr EXCEPT ![p] = FALSE]
        /\ Inject(f)
        /\ Record(v, f, << <<op, cid[p], res>> >>)
        /\ UNCHANGED sysvars
        /\ uses' = IF mounted THEN [uses EXCEPT ![v][cid[p]] = @ + 1] ELSE uses
        /\ liveData' = IF mounted /\ ~InUse(v) THEN [liveData EXCEPT ![v] = {}]
                       ELSE liveData

\* A variant of lockedFile.Close that leaves the lock taken.
CloseKeepsLock(p) ==
    /\ flocked' = flocked
    /\ opened' = opened \ {p}

\* lockedFile.Close: flock(LOCK_UN), then (deferred) the Close of the file, which
\* drops the lock with the handle even when flock(LOCK_UN) failed.
lockedFileClose(p) ==
    /\ flocked' = flocked \ {p}
    /\ opened' = opened \ {p}

\* The request returns `res` after `defer activemountsdir.Close()` was reached: the
\* deferred Close runs on the way out.
Return(p, op, res, f) ==
    /\ Leave(p, op, res, f)
    /\ lockedFileClose(p)

\* ------------------------------------------------------------ Create
\* The characters of the strings that requests carry.
Spell(s) ==
    CASE s = "v1" -> <<"v", "1">>
      [] s = "v2" -> <<"v", "2">>
      [] s = "x.y-z_1" -> <<"x", ".", "y", "-", "z", "_", "1">>
      [] s = "_x" -> <<"_", "x">>
      [] s = "a/b" -> <<"a", "/", "b">>
      [] s = "x*y" -> <<"x", "*", "y">>
      [] s = "" -> <<>>
      [] s = "/base" -> <<"/", "b", "a", "s", "e">>
      [] s = "/with,comma" -> <<"/", "w", "i", "t", "h", ",", "c">>
      [] s = "/no:colon" -> <<"/", "n", "o", ":", "c">>
      [] s = "/does/not/exist" -> <<"/", "d", "/", "n">>
      [] s = "/locked" -> <<"/", "l", "o", "c", "k">>
      [] s = "true" -> <<"t", "r", "u", "e">>
      [] s = "TRUE" -> <<"T", "R", "U", "E">>
      [] s = "Yes" -> <<"Y", "e", "s">>
      [] s = "yes" -> <<"y", "e", "s">>
      [] s = "no" -> <<"n", "o">>
      [] s = "false" -> <<"f", "a", "l", "s", "e">>
      [] s = "1" -> <<"1">>

\* The letters and digits that occur, and the upper-case letters among them.
Alnum == {"a", "b", "c", "d", "e", "f", "h", "i", "k", "l", "n", "o", "r", "s", "t",
          "u", "v", "w", "x", "y", "z", "E", "R", "T", "U", "Y", "1", "2"}

\* volNameFormat.MatchString: ^[a-zA-Z0-9][a-zA-Z0-9_.-]*$
volNameFormat(name) ==
    LET c == Spell(name)
    IN  /\ Len(c) >= 1
        /\ c[1] \in Alnum
        /\ \A i \in 2..Len(c) : c[i] \in Alnum \cup {"_", ".", "-"}

\* strings.ContainsRune
ContainsRune(s, r) == \E i \in 1..Len(Spell(s)) : Spell(s)[i] = r

\* strings.ToLower, on the characters of a string
ToLower(c) ==
    [i \in 1..Len(c) |->
        CASE c[i] = "E" -> "e" [] c[i] = "R" -> "r" [] c[i] = "T" -> "t"
          [] c[i] = "U" -> "u" [] c[i] = "Y" -> "y" [] OTHER -> c[i]]

\* The names and option values that Create requests carry; request.Options maps
\* some of the keys to values.
Names       == Volumes \cup {"_x", "a/b", "x*y", ""}
BaseValues  == {"/base", "a/b", "/with,comma", "/no:colon", "/does/not/exist", "/locked", ""}
VolatileValues == {"true", "TRUE", "Yes", "yes", "no", "false", "1", ""}
OptionKeys  == {"base", "volatile", "foo"}
Options ==
    {o \in UNION {[K -> BaseValues \cup VolatileValues] : K \in SUBSET OptionKeys} :
        /\ "base" \in DOMAIN o => o["base"] \in BaseValues
        /\ "volatile" \in DOMAIN o => o["volatile"] \in VolatileValues
        /\ "foo" \in DOMAIN o => o["foo"] = ""}

\* The host's file system outside the data root: the paths that exist, and those
\* among them that os.Open cannot open.
HostPaths  == {"/base", "/with,comma", "/locked"}
HostLocked == {"/locked"}

\* A variant of Create's validation that compares `volatile` as it is spelled.
ValidateAsSpelled(name, o) ==
    LET baseDir == o["base"]
        volatileS == IF "volatile" \in DOMAIN o THEN o["volatile"] ELSE "false"
        bad(e) == [err |-> e, volatile |-> FALSE]
    IN  IF ~volNameFormat(name) THEN bad("illegal name")
        ELSE IF \E opt \in DOMAIN o : opt \notin {"base", "volatile"} THEN bad("invalid option")
        ELSE IF "base" \notin DOMAIN o THEN bad("no base")
        ELSE IF Len(Spell(baseDir)) < 1 \/ Spell(baseDir)[1] # "/" THEN bad("base not absolute")
        ELSE IF ContainsRune(baseDir, ",") \/ ContainsRune(baseDir, ":")
        THEN bad("base has comma or colon")
        ELSE IF baseDir \notin HostPaths THEN bad("base does not exist")
        ELSE IF baseDir \in HostLocked THEN bad("base inaccessible")
        ELSE IF volatileS \in {"no", "false"} THEN [err |-> "nil", volatile |-> FALSE]
        ELSE IF volatileS \in {"yes", "true"} THEN [err |-> "nil", volatile |-> TRUE]
        ELSE bad("invalid volatile")

\* The part of Create before the tree is touched: the user error it returns, or
\* "nil" with the parsed value of `volatile`.
CreateValidate(name, o) ==
    LET baseDir == o["base"]
        volatileS == ToLower(Spell(IF "volatile" \in DOMAIN o THEN o["volatile"] ELSE "false"))
        bad(e) == [err |-> e, volatile |-> FALSE]
    IN  IF ~volNameFormat(name)
        THEN (IF ContainsRune(name, "/") THEN bad("name has slashes") ELSE bad("illegal name"))
        ELSE IF \E opt \in DOMAIN o : opt \notin {"base", "volatile"} THEN bad("invalid option")
        ELSE IF "base" \notin DOMAIN o THEN bad("no base")
        ELSE IF Len(Spell(baseDir)) < 1 \/ Spell(baseDir)[1] # "/" THEN bad("base not absolute")
        ELSE IF ContainsRune(baseDir, ",") \/ ContainsRune(baseDir, ":")
        THEN bad("base has comma or colon")
        ELSE IF baseDir \notin HostPaths THEN bad("base does not exist")
        ELSE IF baseDir \in HostLocked THEN bad("base inaccessible")
        ELSE IF volatileS = Spell("no") \/ volatileS = Spell("false")
        THEN [err |-> "nil", volatile |-> FALSE]
        ELSE IF volatileS = Spell("yes") \/ volatileS = Spell("true")
        THEN [err |-> "nil", volatile |-> TRUE]
        ELSE bad("invalid volatile")

\* A variant of Create that writes the metadata of a volume that exists already.
CreateOverwrites(t, name, o, f, destroyFails) ==
    LET val == CreateValidate(name, o)
    IN  IF val.err # "nil" THEN [t |-> t, res |-> val.err, volatile |-> FALSE]
        ELSE [t |-> writeVolumeInfo([t EXCEPT !.main = TRUE, !.upperDir = TRUE,
                                                !.amDir = TRUE],
                                    [BaseDirPath |-> o["base"], Volatile |-> val.volatile]),
              res |-> "created", volatile |-> val.volatile]

\* Create, on the tree t of the volume named: validation, volumeTreeCreate, then
\* writeVolumeInfo, after whose failure the tree is destroyed again.  Create returns
\* the same internal error whether or not that RemoveAll worked; res tells the two
\* apart by what volumeTreeDestroy logged ("Failed to RemoveAll main directory").
CreateOutcome(t, name, o, f, destroyFails) ==
    LET val == CreateValidate(name, o)
        made == volumeTreeCreate(t, f, destroyFails)
        info == [BaseDirPath |-> o["base"], Volatile |-> val.volatile]
        failed == IF destroyFails /\ f \in {"mkdir upper", "mkdir activemounts", "write metadata"}
                  THEN "create error, destroy failed"
                  ELSE "create error"
    IN  IF val.err # "nil" THEN [t |-> t, res |-> val.err, volatile |-> FALSE]
        ELSE IF made.err = "exist"
        THEN [t |-> t, res |-> "volume already exists", volatile |-> FALSE]
        ELSE IF made.err # "nil" THEN [t |-> made.t, res |-> failed, volatile |-> FALSE]
        ELSE IF f = "write metadata"
        THEN [t |-> volumeTreeDestroy(made.t, FALSE, destroyFails), res |-> failed,
              volatile |-> FALSE]
        ELSE [t |-> writeVolumeInfo(made.t, info), res |-> "created",
              volatile |-> val.volatile]

\* Create(request): `f` is the system call of it that fails, `destroyFails` whether
\* the RemoveAll that undoes a half-made tree fails as well.
Create(name, o, f, destroyFails) ==
    LET t == IF name \in Volumes THEN tree[name] ELSE NoTree
        r == CreateOutcome(t, name, o, f, destroyFails)
        reached == ~t.main /\ CreateValidate(name, o).err = "nil"
    IN  /\ ~down
        /\ destroyFails => f \in {"mkdir upper", "mkdir activemounts", "write metadata"}
        /\ f # "none" => reached
        /\ r.t # t => name \in Volumes
        /\ tree' = IF name \in Volumes THEN [tree EXCEPT ![name] = r.t] ELSE tree
        /\ IF r.res = "created"
           THEN /\ liveData' = [liveData EXCEPT ![name] = {}]
                /\ hist' = [hist EXCEPT ![name] =
                              << <<"Create", IF r.volatile THEN 1 ELSE 0, "ok">> >>]
                /\ histOn' = [histOn EXCEPT ![name] = Idle(name)]
           ELSE UNCHANGED <<liveData, hist, histOn>>
        /\ result' = r.res
        /\ listed' = {}
        /\ UNCHANGED createErr
        /\ Inject(f)
        /\ UNCHANGED <<kmounts, flocked, opened, pc, cvol, cid, thisVol, cerr, down, crashes, uses>>

\* The options of a Create request that passes validation.
ValidOptions(volatile) ==
    [k \in {"base", "volatile"} |->
        IF k = "base" THEN "/base" ELSE IF volatile THEN "true" ELSE "false"]

\* The daemon creates a volume it does not have, with valid options.
CreateNew(v, volatile) ==
    /\ ~tree[v].main
    /\ Create(v, ValidOptions(volatile), "none", FALSE)

\* ------------------------------------------- Create, system call by system call
\* Create requests that run side by side: each is at one of CreatePcs, the
\* statements of Create that touch the data root.
\* What a step of Create leaves alone.
CreateFrame(f) ==
    /\ listed' = {}
    /\ Inject(f)
    /\ UNCHANGED <<kmounts, flocked, opened, cid, cerr, sysvars, uses>>

\* Create moves on to statement `next`.
CreateGoto(p, next, f) ==
    /\ pc' = [pc EXCEPT ![p] = next]
    /\ result' = "none"
    /\ CreateFrame(f)
    /\ UNCHANGED <<cvol, thisVol, createErr, liveData, hist, histOn>>

\* Create returns `res`; the slot keeps the name and the VolumeInfo of the request
\* it served.
CreateReturn(p, res, f) ==
    /\ pc' = [pc EXCEPT ![p] = "idle"]
    /\ result' = res
    /\ createErr' = [createErr EXCEPT ![p] = res]
    /\ CreateFrame(f)
    /\ UNCHANGED <<cvol, thisVol>>
    /\ IF res = "created"
       THEN /\ liveData' = [liveData EXCEPT ![cvol[p]] = {}]
            /\ hist' = [hist EXCEPT ![cvol[p]] =
                          << <<"Create", IF thisVol[p].Volatile THEN 1 ELSE 0, "ok">> >>]
            /\ histOn' = [histOn EXCEPT ![cvol[p]] = (Busy(cvol[p]) = {p})]
       ELSE UNCHANGED <<liveData, hist, histOn>>

\* Create is called in a slot that has served no Create yet: the validation, which
\* touches nothing under the data root.  A request that passes goes on with the
\* VolumeInfo it is going to write.
CallCreate(p, name, o) ==
    LET val == CreateValidate(name, o)
    IN  /\ ~down
        /\ pc[p] = "idle"
        /\ createErr[p] = "none"
        /\ UNCHANGED tree
        /\ IF val.err # "nil"
           THEN /\ CreateReturn(p, val.err, "none")
           ELSE /\ cvol' = [cvol EXCEPT ![p] = name]
                /\ thisVol' = [thisVol EXCEPT ![p] =
                                 [BaseDirPath |-> o["base"], Volatile |-> val.volatile]]
                /\ pc' = [pc EXCEPT ![p] = "c_main"]
                /\ result' = "none"
                /\ CreateFrame("none")
                /\ UNCHANGED <<createErr, liveData, hist, histOn>>

\* A variant of the first Mkdir that takes an existing main directory for its own
\* (as MkdirAll would).
CreateMkdirAllMain(p, f) ==
    /\ pc[p] = "c_main"
    /\ f = "none"
    /\ tree' = [tree EXCEPT ![cvol[p]].main = TRUE]
    /\ CreateGoto(p, "c_upper", f)

\* volumeTreeCreate: os.Mkdir of the main directory.  It fails with an IsExist
\* error when the directory is there, whoever made it.
CreateMkdirMain(p, f) ==
    /\ pc[p] = "c_main"
    /\ IF tree[cvol[p]].main
       THEN /\ f = "none"
            /\ UNCHANGED tree
            /\ CreateReturn(p, "volume already exists", f)
       ELSE IF f = "mkdir main"
       THEN /\ UNCHANGED tree
            /\ CreateReturn(p, "create error", f)
       ELSE /\ f = "none"
            /\ tree' = [tree EXCEPT ![cvol[p]].main = TRUE]
            /\ CreateGoto(p, "c_upper", f)

\* volumeTreeCreate: os.Mkdir of upper/ (at "c_upper") and of activemounts/ (at
\* "c_activemounts"); after a failure volumeTreeDestroy, whose own failure
\* (destroyFails) is only logged.
CreateMkdirInternal(p, f, destroyFails) ==
    LET v == cvol[p]
        failed == IF destroyFails THEN "create error, destroy failed" ELSE "create error"
    IN  /\ pc[p] \in {"c_upper", "c_activemounts"}
        /\ f \in {"none", IF pc[p] = "c_upper" THEN "mkdir upper" ELSE "mkdir activemounts"}
        /\ destroyFails => f # "none"
        /\ IF f # "none"
           THEN /\ tree' = [tree EXCEPT ![v] = volumeTreeDestroy(@, FALSE, destroyFails)]
                /\ CreateReturn(p, failed, f)
           ELSE IF pc[p] = "c_upper"
           THEN /\ tree' = [tree EXCEPT ![v].upperDir = TRUE, ![v].upper = {}]
                /\ CreateGoto(p, "c_activemounts", f)
           ELSE /\ tree' = [tree EXCEPT ![v].amDir = TRUE, ![v].markers = {}]
                /\ CreateGoto(p, "c_write", f)

\* Create: writeVolumeInfo; after a failure volumeTreeDestroy.
CreateWriteInfo(p, f, destroyFails) ==
    LET v == cvol[p]
        failed == IF destroyFails THEN "create error, destroy failed" ELSE "create error"
    IN  /\ pc[p] = "c_write"
        /\ f \in {"none", "write metadata"}
        /\ destroyFails => f # "none"
        /\ IF f # "none"
           THEN /\ tree' = [tree EXCEPT ![v] = volumeTreeDestroy(@, FALSE, destroyFails)]
                /\ CreateReturn(p, failed, f)
           ELSE /\ tree' = [tree EXCEPT ![v] = writeVolumeInfo(@, thisVol[p])]
                /\ CreateReturn(p, "created", f)

\* ------------------------------------------------------------ Remove
\* Remove: RemoveAll of the main directory (`f` = "removeall": it fails for a reason
\* other than a mount at mountpoint/).  The daemon issues Remove only for a volume
\* that no container uses and on which it has no Mount or Unmount outstanding.
Remove(v, f) ==
    LET t == volumeTreeDestroy(tree[v], Mounted(v), f = "removeall")
    IN  /\ ~down
        /\ Idle(v)
        /\ ~InUse(v)
        /\ f # "none" => tree[v].main
        /\ tree' = [tree EXCEPT ![v] = t]
        /\ kmounts' = IF f = "none"
                      THEN [kmounts EXCEPT ![v] = [i \in DOMAIN kmounts[v] |-> FALSE]]
                      ELSE kmounts
        /\ hist' = [hist EXCEPT ![v] = <<>>]
        /\ histOn' = [histOn EXCEPT ![v] = FALSE]
        /\ result' = IF t.main THEN "remove error" ELSE "removed"
        /\ listed' = {}
        /\ UNCHANGED createErr
        /\ Inject(f)
        /\ UNCHANGED <<flocked, opened, pc, cvol, cid, thisVol, cerr, down, crashes, uses, liveData>>

\* The system calls of the Remove that force-unmounts which the environment can fail.
RemoveForceFaults == {"none", "rm mountpoint", "unmount", "removeall"}

\* A variant of the force-unmounting Remove that removes what it can before it
\* returns the error of a failed unmount.
RemoveForceGoesOn(t, k, f) ==
    LET busy == t.mountpoint /\ k # <<>>
        t2 == volumeTreeDestroy(t, busy, FALSE)
    IN  [t |-> t2, k |-> k,
         res |-> IF busy /\ f = "unmount" THEN "remove unmount error"
                 ELSE IF t2.main THEN "remove error" ELSE "removed"]

\* A variant of the force-unmounting Remove that detaches nothing and reports
\* success whatever RemoveAll did.
RemoveForceReportsOk(t, k, f) ==
    [t |-> volumeTreeDestroy(t, t.mountpoint /\ k # <<>>, f # "none"), k |-> k,
     res |-> "removed"]

\* Remove as in the version that recovers from a stale mountpoint/, on the tree t
\* and the mounts k of the volume: os.Remove of mountpoint/; when that says EBUSY,
\* syscall.Unmount(MNT_FORCE|MNT_DETACH), which detaches the topmost mount; then
\* RemoveAll of the main directory.  res: the error returned, or "removed" (after
\* the warning about the forced unmount, if there was one).
RemoveForceOutcome(t, k, f) ==
    LET busy == t.mountpoint /\ k # <<>>
        k1 == IF busy THEN SubSeq(k, 1, Len(k) - 1) ELSE k
        t1 == IF busy THEN t ELSE [t EXCEPT !.mountpoint = FALSE]
        t2 == volumeTreeDestroy(t1, k1 # <<>>, f = "removeall")
    IN  IF busy /\ f = "unmount" THEN [t |-> t, k |-> k, res |-> "remove unmount error"]
        ELSE IF t.mountpoint /\ ~busy /\ f = "rm mountpoint"
        THEN [t |-> t, k |-> k, res |-> "remove mountpoint error"]
        ELSE [t |-> t2, k |-> k1,
              res |-> IF t2.main THEN "remove error"
                      ELSE IF busy THEN "removed after unmount" ELSE "removed"]

RemoveForce(v, f) ==
    LET r == RemoveForceOutcome(tree[v], kmounts[v], f)
    IN  /\ ~down
        /\ Idle(v)
        /\ ~InUse(v)
        /\ f = "unmount" => tree[v].mountpoint /\ Mounted(v)
        /\ f = "rm mountpoint" => tree[v].mountpoint /\ ~Mounted(v)
        /\ f = "removeall" => tree[v].main
        /\ tree' = [tree EXCEPT ![v] = r.t]
        /\ kmounts' = [kmounts EXCEPT ![v] =
                         IF r.t = tree[v] THEN r.k ELSE [i \in DOMAIN r.k |-> FALSE]]
        /\ hist' = [hist EXCEPT ![v] = <<>>]
        /\ histOn' = [histOn EXCEPT ![v] = FALSE]
        /\ result' = r.res
        /\ listed' = {}
        /\ UNCHANGED createErr
        /\ Inject(f)
        /\ UNCHANGED <<flocked, opened, pc, cvol, cid, thisVol, cerr, down, crashes, uses, liveData>>

\* ------------------------------------------------- Get, Path and List
\* A variant of Get that looks for metadata.json.
GetByMetadata(t, f) ==
    IF getVolumeInfo(t) = NoMeta THEN "get no such volume"
    ELSE IF f = "open" THEN "get error" ELSE "found"

\* Get: os.Open of the volume's main directory.
GetOutcome(t, f) ==
    IF ~t.main THEN "get no such volume"
    ELSE IF f = "open" THEN "get error" ELSE "found"

Get(v, f) ==
    /\ ~down
    /\ f # "none" => tree[v].main
    /\ result' = GetOutcome(tree[v], f)
    /\ listed' = {}
    /\ UNCHANGED createErr
    /\ Inject(f)
    /\ UNCHANGED <<fsvars, flocked, opened, pc, cvol, cid, thisVol, cerr, down, crashes,
                   uses, liveData, hist, histOn>>

\* Path: answers with the path of mountpoint/, whether or not the volume exists.
Path(v) ==
    /\ ~down
    /\ result' = "path"
    /\ listed' = {}
    /\ UNCHANGED createErr
    /\ UNCHANGED <<fsvars, flocked, opened, pc, cvol, cid, thisVol, cerr, faults, peekFailed,
                   down, crashes, uses, liveData, hist, histOn>>

\* A variant of List that names the volumes that have metadata.
ListWithMetadata(tr) == {v \in Volumes : tr[v].metadata # NoMeta}

\* os.ReadDir of the data root: the names of its entries, which are the main
\* directories of the volumes.
ListOutcome(tr) == {v \in Volumes : tr[v].main}

\* List: ReadDir of the data root; response.Volumes gets the name of every entry.
List(f) ==
    /\ ~down
    /\ result' = IF f = "readdir root" THEN "list error" ELSE "listed"
    /\ listed' = IF f = "readdir root" THEN {} ELSE ListOutcome(tree)
    /\ UNCHANGED createErr
    /\ Inject(f)
    /\ UNCHANGED <<fsvars, flocked, opened, pc, cvol, cid, thisVol, cerr, down, crashes,
                   uses, liveData, hist, histOn>>

\* ------------------------------------------------------------- Mount
\* The Mount requests for (v, id) being served.
MountsInFlight(v, id) == {q \in Procs : pc[q] \in MountPcs /\ cvol[q] = v /\ cid[q] = id}

\* The daemon issues Mount(v, id).
CallMount(p, v, id) ==
    LET inflight == MountsInFlight(v, id)
    IN  /\ ~down
        /\ pc[p] = "idle"
        /\ uses[v][id] + Cardinality(inflight) < MaxUses
        /\ pc' = [pc EXCEPT ![p] = "m_info"]
        /\ cvol' = [cvol EXCEPT ![p] = v]
        /\ cid' = [cid EXCEPT ![p] = id]
        /\ histOn' = [histOn EXCEPT ![v] = @ /\ Idle(v)]
        /\ hist' = [hist EXCEPT ![v] = IF histOn[v] /\ Idle(v) THEN @ ELSE <<>>]
        /\ result' = "none"
        /\ listed' = {}
        /\ UNCHANGED createErr
        /\ UNCHANGED <<fsvars, flocked, opened, thisVol, cerr, faults, peekFailed, down, crashes, uses, liveData>>

\* The daemon issues Mount(v, id) with an ID that no live mount of v and no request
\* for v being served has.
CallMountDistinct(p, v, id) ==
    /\ uses[v][id] = 0
    /\ \A q \in Busy(v) : cid[q] # id
    /\ CallMount(p, v, id)

\* A variant of Mount that goes on to take the lock when metadata.json is missing.
MountInfoGoesOn(p) ==
    /\ pc[p] = "m_info"
    /\ thisVol' = [thisVol EXCEPT ![p] = getVolumeInfo(tree[cvol[p]])]
    /\ Goto(p, "m_open", "none")
    /\ UNCHANGED <<fsvars, flocked, opened, cvol, cid, cerr>>

\* thisVol, err := d.getVolumeInfo(request.Name)
MountGetVolumeInfo(p) ==
    LET info == getVolumeInfo(tree[cvol[p]])
    IN  /\ pc[p] = "m_info"
        /\ IF info = NoMeta
           THEN Leave(p, "Mount", "no such volume", "none")
           ELSE /\ thisVol' = [thisVol EXCEPT ![p] = info]
                /\ Goto(p, "m_open", "none")
                /\ UNCHANGED <<cvol, cid, cerr>>
        /\ UNCHANGED <<flocked, opened>>
        /\ UNCHANGED fsvars

\* activemountsdir.Open(...): os.Open of activemounts/, then the blocking
\* syscall.Flock(LOCK_EX) on the handle.
MountOpen(p, f) ==
    LET r == lockedFileOpen(tree[cvol[p]].amDir, f)
    IN  /\ pc[p] = "m_open"
        /\ f # "none" => tree[cvol[p]].amDir
        /\ r.locked => CanFlock(p)
        /\ flocked' = IF r.locked THEN flocked \cup {p} ELSE flocked
        /\ opened' = IF r.open THEN opened \cup {p} ELSE opened
        /\ IF r.err # "nil"
           THEN Leave(p, "Mount", r.err, f)
           ELSE Goto(p, "m_peek", f) /\ UNCHANGED <<cvol, cid, thisVol, cerr>>
        /\ UNCHANGED fsvars

\* A variant of Mount's peek that mounts afresh whatever activemounts/ holds.
MountPeekAlwaysFresh(t, f) == "m_premount"

\* activemountsdir.ReadDir(1) and the branch on it.  The second branch tests `err`,
\* the (nil) error of lockedFile.Open, so it is taken for every readDirErr but EOF.
MountPeek(t, f) ==
    LET readDirErr == IF f = "readdir" THEN "error"
                      ELSE IF t.markers = {} THEN "EOF" ELSE "nil"
        err == "nil"
    IN  IF readDirErr = "EOF" THEN "m_premount"
        ELSE IF err = "nil" THEN "m_marker"
        ELSE "return"

MountReadDir(p, f) ==
    LET next == MountPeek(Listing(p), f)
    IN  /\ pc[p] = "m_peek"
        /\ IF next = "return"
           THEN Return(p, "Mount", "internal error", f)
           ELSE Goto(p, next, f) /\ UNCHANGED <<flocked, opened, cvol, cid, thisVol, cerr>>
        /\ UNCHANGED fsvars

\* d.volumeTreePreMount(request.Name, thisVol.Volatile)
MountPreMount(p, f) ==
    LET v == cvol[p]
        r == volumeTreePreMount(tree[v], thisVol[p].Volatile, f)
    IN  /\ pc[p] = "m_premount"
        /\ f \in PreMountFaults(thisVol[p].Volatile)
        /\ tree' = [tree EXCEPT ![v] = r.t]
        /\ kmounts' = IF r.wiped
                      THEN [kmounts EXCEPT ![v] = [i \in DOMAIN kmounts[v] |-> FALSE]]
                      ELSE kmounts
        /\ IF r.err
           THEN Return(p, "Mount", "internal error", f)
           ELSE Goto(p, "m_mount", f) /\ UNCHANGED <<flocked, opened, cvol, cid, thisVol, cerr>>

\* A variant of Mount that goes on to create its marker when syscall.Mount failed.
MountSyscallGoesOn(p, f) ==
    LET v == cvol[p]
        t == tree[v]
        ok == f = "none" /\ t.mountpoint /\ t.workdir /\ t.upperDir
    IN  /\ pc[p] = "m_mount"
        /\ f # "none" => t.mountpoint /\ t.workdir /\ t.upperDir
        /\ ok => Len(kmounts[v]) < MaxStack
        /\ kmounts' = IF ok THEN [kmounts EXCEPT ![v] = Append(@, TRUE)] ELSE kmounts
        /\ Goto(p, "m_marker", f)
        /\ UNCHANGED <<tree, flocked, opened, cvol, cid, thisVol, cerr>>

\* syscall.Mount(..., mountpoint, "overlay", 0, options): fails when one of the
\* directories it names is missing; a mount over a mounted mountpoint/ shadows it.
MountSyscall(p, f) ==
    LET v == cvol[p]
        t == tree[v]
        ok == f = "none" /\ t.mountpoint /\ t.workdir /\ t.upperDir
    IN  /\ pc[p] = "m_mount"
        /\ f # "none" => t.mountpoint /\ t.workdir /\ t.upperDir
        /\ ok => Len(kmounts[v]) < MaxStack
        /\ IF ok
           THEN /\ kmounts' = [kmounts EXCEPT ![v] = Append(@, TRUE)]
                /\ Goto(p, "m_marker", f)
                /\ UNCHANGED <<flocked, opened, cvol, cid, thisVol, cerr>>
           ELSE /\ Return(p, "Mount", "mount error", f)
                /\ UNCHANGED kmounts
        /\ UNCHANGED tree

\* A variant of Mount that detaches the overlay again when os.Create failed.
MountCreateMarkerRollsBack(p, f) ==
    LET v == cvol[p]
        ok == f = "none" /\ tree[v].amDir
    IN  /\ pc[p] = "m_marker"
        /\ f # "none" => tree[v].amDir
        /\ IF ok
           THEN /\ tree' = [tree EXCEPT ![v].markers = @ \cup {cid[p]}]
                /\ Return(p, "Mount", "ok", f)
                /\ UNCHANGED kmounts
           ELSE /\ Return(p, "Mount", "critical error", f)
                /\ kmounts' = [kmounts EXCEPT ![v] = SubSeq(@, 1, Len(@) - 1)]
                /\ UNCHANGED tree

\* os.Create(activemountFilePath): creates the marker, or truncates the one that is
\* there.  When it fails the kernel mount is left as it is.
MountCreateMarker(p, f) ==
    LET v == cvol[p]
        ok == f = "none" /\ tree[v].amDir
    IN  /\ pc[p] = "m_marker"
        /\ f # "none" => tree[v].amDir
        /\ IF ok
           THEN /\ tree' = [tree EXCEPT ![v].markers = @ \cup {cid[p]}]
                /\ Return(p, "Mount", "ok", f)
           ELSE /\ Return(p, "Mount", "critical error", f)
                /\ UNCHANGED tree
        /\ UNCHANGED kmounts

\* ----------------------------------------------------------- Unmount
\* The daemon issues Unmount(v, id) for a Mount(v, id) that returned success.
CallUnmount(p, v, id) ==
    /\ ~down
    /\ pc[p] = "idle"
    /\ uses[v][id] > 0
    /\ pc' = [pc EXCEPT ![p] = "u_open"]
    /\ cvol' = [cvol EXCEPT ![p] = v]
    /\ cid' = [cid EXCEPT ![p] = id]
    /\ uses' = [uses EXCEPT ![v][id] = @ - 1]
    /\ histOn' = [histOn EXCEPT ![v] = @ /\ Idle(v)]
    /\ hist' = [hist EXCEPT ![v] = IF histOn[v] /\ Idle(v) THEN @ ELSE <<>>]
    /\ result' = "none"
    /\ listed' = {}
    /\ UNCHANGED createErr
    /\ UNCHANGED <<fsvars, flocked, opened, thisVol, cerr, faults, peekFailed, down, crashes, liveData>>

\* activemountsdir.Open(...): os.Open of activemounts/, then the blocking
\* syscall.Flock(LOCK_EX) on the handle.
UnmountOpen(p, f) ==
    LET r == lockedFileOpen(tree[cvol[p]].amDir, f)
    IN  /\ pc[p] = "u_open"
        /\ f # "none" => tree[cvol[p]].amDir
        /\ r.locked => CanFlock(p)
        /\ flocked' = IF r.locked THEN flocked \cup {p} ELSE flocked
        /\ opened' = IF r.open THEN opened \cup {p} ELSE opened
        /\ IF r.err # "nil"
           THEN Leave(p, "Unmount", r.err, f)
           ELSE Goto(p, "u_peek", f) /\ UNCHANGED <<cvol, cid, thisVol, cerr>>
        /\ UNCHANGED fsvars

\* A variant of Unmount's peek that unmounts only when activemounts/ is empty.
UnmountPeekOnlyWhenEmpty(t, f) ==
    IF f = "readdir" THEN "return" ELSE IF t.markers = {} THEN "u_umount" ELSE "u_marker"

\* activemountsdir.ReadDir(2) and the branch on it: at most two entries are read.
UnmountPeek(t, f) ==
    LET n == IF f = "readdir" THEN 0
             ELSE IF Cardinality(t.markers) >= 2 THEN 2 ELSE Cardinality(t.markers)
        readDirErr == IF f = "readdir" THEN "error" ELSE IF n = 0 THEN "EOF" ELSE "nil"
    IN  IF n = 1 \/ readDirErr = "EOF" THEN "u_umount"
        ELSE IF readDirErr = "nil" THEN "u_marker"
        ELSE "return"

UnmountReadDir(p, f) ==
    LET next == UnmountPeek(Listing(p), f)
    IN  /\ pc[p] = "u_peek"
        /\ IF next = "return"
           THEN Return(p, "Unmount", "internal error", f)
           ELSE Goto(p, next, f) /\ UNCHANGED <<flocked, opened, cvol, cid, thisVol, cerr>>
        /\ UNCHANGED fsvars

\* A variant of Unmount that goes on to clean up when syscall.Unmount failed.
UnmountSyscallGoesOn(p, f) ==
    LET v == cvol[p]
        ok == f = "none" /\ Mounted(v)
    IN  /\ pc[p] = "u_umount"
        /\ f # "none" => Mounted(v)
        /\ kmounts' = IF ok THEN [kmounts EXCEPT ![v] = SubSeq(@, 1, Len(@) - 1)]
                      ELSE kmounts
        /\ Goto(p, "u_post", f)
        /\ UNCHANGED <<tree, flocked, opened, cvol, cid, thisVol, cerr>>

\* syscall.Unmount(mountpoint, 0): detaches the topmost mount at mountpoint/; fails
\* when nothing is mounted there.
UnmountSyscall(p, f) ==
    LET v == cvol[p]
        ok == f = "none" /\ Mounted(v)
    IN  /\ pc[p] = "u_umount"
        /\ f # "none" => Mounted(v)
        /\ IF ok
           THEN /\ kmounts' = [kmounts EXCEPT ![v] = SubSeq(@, 1, Len(@) - 1)]
                /\ Goto(p, "u_post", f)
                /\ UNCHANGED <<flocked, opened, cvol, cid, thisVol, cerr>>
           ELSE /\ Return(p, "Unmount", "unmount error", f)
                /\ UNCHANGED kmounts
        /\ UNCHANGED tree

\* err = d.volumeTreePostUnmount(request.Name); the error is returned later.
UnmountPostUnmount(p, f) ==
    LET v == cvol[p]
        r == volumeTreePostUnmount(tree[v], Mounted(v), f)
    IN  /\ pc[p] = "u_post"
        /\ tree' = [tree EXCEPT ![v] = r.t]
        /\ cerr' = [cerr EXCEPT ![p] = r.err]
        /\ Goto(p, "u_marker", f)
        /\ UNCHANGED <<kmounts, flocked, opened, cvol, cid, thisVol>>

\* A variant of Unmount that mounts the overlay again when os.Remove failed.
UnmountRemoveMarkerUndoes(p, f) ==
    LET v == cvol[p]
        present == cid[p] \in tree[v].markers
        res == IF cerr[p] THEN "cleanup error" ELSE "ok"
    IN  /\ pc[p] = "u_marker"
        /\ f # "none" => present
        /\ IF ~present
           THEN Return(p, "Unmount", res, f) /\ UNCHANGED <<tree, kmounts>>
           ELSE IF f = "none"
           THEN /\ tree' = [tree EXCEPT ![v].markers = @ \ {cid[p]}]
                /\ Return(p, "Unmount", res, f)
                /\ UNCHANGED kmounts
           ELSE /\ Return(p, "Unmount", "critical error", f)
                /\ kmounts' = [kmounts EXCEPT ![v] = Append(@, TRUE)]
                /\ UNCHANGED tree

\* A variant of Unmount that returns the cleanup error before it removes the marker.
UnmountReturnsCleanupErrorEarly(p, f) ==
    LET v == cvol[p]
        present == cid[p] \in tree[v].markers
    IN  /\ pc[p] = "u_marker"
        /\ f # "none" => present
        /\ IF cerr[p] \/ ~present
           THEN Return(p, "Unmount", IF cerr[p] THEN "cleanup error" ELSE "ok", f)
                /\ UNCHANGED tree
           ELSE IF f = "none"
           THEN /\ tree' = [tree EXCEPT ![v].markers = @ \ {cid[p]}]
                /\ Return(p, "Unmount", "ok", f)
           ELSE Return(p, "Unmount", "critical error", f) /\ UNCHANGED tree
        /\ UNCHANGED kmounts

\* os.Remove(activemountFilePath): an absent marker is only logged; any other
\* failure is returned and the kernel unmount is not undone.
UnmountRemoveMarker(p, f) ==
    LET v == cvol[p]
        present == cid[p] \in tree[v].markers
        res == IF cerr[p] THEN "cleanup error" ELSE "ok"
    IN  /\ pc[p] = "u_marker"
        /\ f # "none" => present
        /\ IF ~present
           THEN Return(p, "Unmount", res, f) /\ UNCHANGED tree
           ELSE IF f = "none"
           THEN /\ tree' = [tree EXCEPT ![v].markers = @ \ {cid[p]}]
                /\ Return(p, "Unmount", res, f)
           ELSE Return(p, "Unmount", "critical error", f) /\ UNCHANGED tree
        /\ UNCHANGED kmounts

\* ------------------------------- activateVolume / deactivateVolume
\* The later version of Mount and Unmount: Mount is getVolumeInfo, lockedFile.Open
\* and activateVolume, whose statements are those of the Mount above except for the
\* branch on ReadDir; Unmount is lockedFile.Open and deactivateVolume, which removes
\* the marker first.

\* activateVolume: _, err = activemountsdir.ReadDir(1) and the branch on err.
ActivatePeek(t, f) ==
    LET err == IF f = "readdir" THEN "error"
               ELSE IF t.markers = {} THEN "EOF" ELSE "nil"
    IN  IF err = "EOF" THEN "m_premount"
        ELSE IF err = "nil" THEN "m_marker"
        ELSE "return"

ActivateReadDir(p, f) ==
    LET next == ActivatePeek(Listing(p), f)
    IN  /\ pc[p] = "m_peek"
        /\ IF next = "return"
           THEN Return(p, "Mount", "internal error", f)
           ELSE Goto(p, next, f) /\ UNCHANGED <<flocked, opened, cvol, cid, thisVol, cerr>>
        /\ UNCHANGED fsvars

\* Unmount: activemountsdir.Open(...), then deactivateVolume.
DeactivateOpen(p, f) ==
    LET r == lockedFileOpen(tree[cvol[p]].amDir, f)
    IN  /\ pc[p] = "u_open"
        /\ f # "none" => tree[cvol[p]].amDir
        /\ r.locked => CanFlock(p)
        /\ flocked' = IF r.locked THEN flocked \cup {p} ELSE flocked
        /\ opened' = IF r.open THEN opened \cup {p} ELSE opened
        /\ IF r.err # "nil"
           THEN Leave(p, "Unmount", r.err, f)
           ELSE Goto(p, "d_marker", f) /\ UNCHANGED <<cvol, cid, thisVol, cerr>>
        /\ UNCHANGED fsvars

\* A variant of deactivateVolume that issues the kernel unmount for the last user
\* before it removes the marker.
DeactivateUnmountsFirst(p, f) ==
    LET v == cvol[p]
        last == tree[v].markers \subseteq {cid[p]} /\ Mounted(v)
    IN  /\ pc[p] = "d_marker"
        /\ f = "none"
        /\ kmounts' = IF last THEN [kmounts EXCEPT ![v] = SubSeq(@, 1, Len(@) - 1)]
                      ELSE kmounts
        /\ Goto(p, "d_peek", f)
        /\ UNCHANGED <<tree, flocked, opened, cvol, cid, thisVol, cerr>>

\* deactivateVolume: os.Remove(activemountFilePath); an absent marker is only
\* logged, any other failure is returned.
DeactivateRemoveMarker(p, f) ==
    LET v == cvol[p]
        present == cid[p] \in tree[v].markers
    IN  /\ pc[p] = "d_marker"
        /\ f # "none" => present
        /\ IF f = "none"
           THEN /\ tree' = [tree EXCEPT ![v].markers = @ \ {cid[p]}]
                /\ Goto(p, "d_peek", f)
                /\ UNCHANGED <<flocked, opened, cvol, cid, thisVol, cerr>>
           ELSE Return(p, "Unmount", "critical error", f) /\ UNCHANGED tree
        /\ UNCHANGED kmounts

\* deactivateVolume: _, err = activemountsdir.ReadDir(1) and the branch on err.
DeactivatePeek(t, f) ==
    LET err == IF f = "readdir" THEN "error"
               ELSE IF t.markers = {} THEN "EOF" ELSE "nil"
    IN  IF err = "EOF" THEN "d_umount"
        ELSE IF err = "nil" THEN "ok"
        ELSE "internal error"

DeactivateReadDir(p, f) ==
    LET next == DeactivatePeek(Listing(p), f)
    IN  /\ pc[p] = "d_peek"
        /\ IF next = "d_umount"
           THEN Goto(p, next, f) /\ UNCHANGED <<flocked, opened, cvol, cid, thisVol, cerr>>
           ELSE Return(p, "Unmount", next, f)
        /\ UNCHANGED fsvars

\* deactivateVolume: syscall.Unmount(mountpoint, 0); its error is returned.
DeactivateSyscall(p, f) ==
    LET v == cvol[p]
        ok == f = "none" /\ Mounted(v)
    IN  /\ pc[p] = "d_umount"
        /\ f # "none" => Mounted(v)
        /\ IF ok
           THEN /\ kmounts' = [kmounts EXCEPT ![v] = SubSeq(@, 1, Len(@) - 1)]
                /\ Goto(p, "d_post", f)
                /\ UNCHANGED <<flocked, opened, cvol, cid, thisVol, cerr>>
           ELSE /\ Return(p, "Unmount", "unmount error", f)
                /\ UNCHANGED kmounts
        /\ UNCHANGED tree

\* deactivateVolume: err = d.volumeTreePostUnmount(volumeName); return err.
DeactivatePostUnmount(p, f) ==
    LET v == cvol[p]
        r == volumeTreePostUnmount(tree[v], Mounted(v), f)
    IN  /\ pc[p] = "d_post"
        /\ tree' = [tree EXCEPT ![v] = r.t]
        /\ Return(p, "Unmount", IF r.err THEN "cleanup error" ELSE "ok", f)
        /\ UNCHANGED kmounts

\* -------------------------------------------------------- containers
\* A running container writes file `file` into the volume: it lands in upper/ when
\* the overlay at mountpoint/ still has the directory at upper/ as its upperdir.
ContainerWrite(v, file) ==
    /\ InUse(v)
    /\ Mounted(v)
    /\ kmounts[v][Len(kmounts[v])]
    /\ tree[v].upperDir
    /\ tree' = [tree EXCEPT ![v].upper = @ \cup {file}]
    /\ liveData' = [liveData EXCEPT ![v] = @ \cup {file}]
    /\ result' = "none"
    /\ listed' = {}
    /\ UNCHANGED createErr
    /\ UNCHANGED <<kmounts, flocked, opened, pc, cvol, cid, thisVol, cerr, faults, peekFailed, down, crashes, uses, hist, histOn>>

\* ------------------------------------------------- the driver process
\* A variant in which the locks of a dead process stay taken.
LocksLeak(P) == flocked

\* The locks left when the requests in P die with their process: the kernel drops a
\* flock when the last handle of the open file is closed.
LocksAfterDeath(P) == flocked \ P

\* The driver process dies (the plugin is killed or restarted, or, with `reboot`, the
\* machine reboots) and the requests in P die with it, wherever they are.  Requests
\* outside P are served by another driver process on the same data root.  A reboot
\* ends every request, every container and every mount.
Crash(P, reboot) ==
    /\ ~down
    /\ crashes < MaxCrashes
    /\ P \subseteq {p \in Procs : pc[p] # "idle"}
    /\ reboot => P = {p \in Procs : pc[p] # "idle"}
    /\ pc' = [p \in Procs |-> IF p \in P THEN "idle" ELSE pc[p]]
    /\ cvol' = [p \in Procs |-> IF p \in P THEN "v1" ELSE cvol[p]]
    /\ cid' = [p \in Procs |-> IF p \in P THEN 1 ELSE cid[p]]
    /\ thisVol' = [p \in Procs |-> IF p \in P THEN NoMeta ELSE thisVol[p]]
    /\ cerr' = [p \in Procs |-> IF p \in P THEN FALSE ELSE cerr[p]]
    /\ flocked' = LocksAfterDeath(P)
    /\ opened' = opened \ P
    /\ kmounts' = IF reboot THEN [v \in Volumes |-> <<>>] ELSE kmounts
    /\ uses' = IF reboot THEN [v \in Volumes |-> [i \in IDs |-> 0]] ELSE uses
    /\ down' = TRUE
    /\ crashes' = crashes + 1
    /\ hist' = [v \in Volumes |-> <<>>]
    /\ histOn' = [v \in Volumes |-> FALSE]
    /\ result' = "none"
    /\ listed' = {}
    /\ UNCHANGED createErr
    /\ UNCHANGED <<tree, faults, peekFailed, liveData>>

\* What NewDockerOnTop makes of the errors of volumeTreeOnBootReset, errs[v] being
\* the error for entry v of the data root: nil is "dirty, cleaned successfully",
\* not-exist is "clean", EBUSY is "still mounted" (counted, and warned about at the
\* end); any other error is returned.
BootOutcome(errs) ==
    IF \E v \in DOMAIN errs : errs[v] = "error" THEN "boot error"
    ELSE IF \E v \in DOMAIN errs : errs[v] = "EBUSY" THEN "boot busy"
    ELSE IF \E v \in DOMAIN errs : errs[v] = "nil" THEN "boot cleaned"
    ELSE IF DOMAIN errs # {} THEN "boot clean"
    ELSE "none"

\* NewDockerOnTop: volumeTreeOnBootReset of every entry of the data root.  "nil",
\* "notexist" (clean) and "EBUSY" (still mounted) let the start go on; any other
\* error ends it and the process does not come up.
Boot(f) ==
    LET found == {v \in Volumes : tree[v].main}
        r == [v \in Volumes |-> volumeTreeOnBootReset(tree[v], Mounted(v), f)]
        outcome == BootOutcome([v \in found |-> r[v].err])
    IN  /\ down
        /\ f # "none" => \E v \in Volumes :
                             tree[v].main /\ tree[v].mountpoint /\ ~Mounted(v)
        /\ tree' = [v \in Volumes |-> IF v \in found THEN r[v].t ELSE tree[v]]
        /\ down' = (outcome = "boot error")
        /\ Inject(f)
        /\ result' = outcome
        /\ listed' = {}
        /\ UNCHANGED createErr
        /\ flocked' = {p \in flocked :
                          ~ActivemountsReplaced(tree[cvol[p]], Mounted(cvol[p]), f)}
        /\ UNCHANGED <<kmounts, opened, pc, cvol, cid, thisVol, cerr, crashes,
                       uses, liveData, hist, histOn>>

\* ------------------------------------------------------ specification
\* The steps of the driver and of the containers, whatever request the daemon issues.
Serve ==
    \/ \E v \in Served, volatile \in BOOLEAN : CreateNew(v, volatile)
    \/ \E v \in Served : Remove(v, "none")
    \/ \E p \in Procs : MountGetVolumeInfo(p)
    \/ \E p \in Procs, f \in {"none", "flock"} : MountOpen(p, f)
    \/ \E p \in Procs, f \in {"none", "readdir"} : MountReadDir(p, f)
    \/ \E p \in Procs, f \in PreMountFaults(TRUE) : MountPreMount(p, f)
    \/ \E p \in Procs, f \in {"none", "mount"} : MountSyscall(p, f)
    \/ \E p \in Procs, f \in {"none", "create"} : MountCreateMarker(p, f)
    \/ \E p \in Procs, v \in Served, id \in IDs : CallUnmount(p, v, id)
    \/ \E p \in Procs, f \in {"none", "flock"} : UnmountOpen(p, f)
    \/ \E p \in Procs, f \in {"none", "readdir"} : UnmountReadDir(p, f)
    \/ \E p \in Procs, f \in {"none", "unmount"} : UnmountSyscall(p, f)
    \/ \E p \in Procs, f \in {"none", "rm mountpoint", "rm workdir"} : UnmountPostUnmount(p, f)
    \/ \E p \in Procs, f \in {"none", "remove"} : UnmountRemoveMarker(p, f)
    \/ \E v \in Served, file \in Files : ContainerWrite(v, file)

\* The daemon as it is: it may reuse the ID of a live mount (moby issue 47964).
Next ==
    \/ \E p \in Procs, v \in Served, id \in IDs : CallMount(p, v, id)
    \/ Serve

Spec == Init /\ [][Next]_vars

\* A daemon that gives every Mount an ID no live mount of the volume has.
NextDistinct ==
    \/ \E p \in Procs, v \in Served, id \in IDs : CallMountDistinct(p, v, id)
    \/ Serve

SpecDistinct == Init /\ [][NextDistinct]_vars

\* The driver with distinct request IDs, dying and starting again.
NextCrash ==
    \/ NextDistinct
    \/ \E P \in SUBSET Procs, reboot \in BOOLEAN : Crash(P, reboot)
    \/ \E f \in BootResetFaults : Boot(f)

SpecCrash == Init /\ [][NextCrash]_vars

\* A step of the request in slot p.
RequestStep(p) ==
    \/ MountGetVolumeInfo(p)
    \/ \E f \in {"none", "flock"} : MountOpen(p, f)
    \/ \E f \in {"none", "readdir"} : MountReadDir(p, f)
    \/ \E f \in PreMountFaults(TRUE) : MountPreMount(p, f)
    \/ \E f \in {"none", "mount"} : MountSyscall(p, f)
    \/ \E f \in {"none", "create"} : MountCreateMarker(p, f)
    \/ \E f \in {"none", "flock"} : UnmountOpen(p, f)
    \/ \E f \in {"none", "readdir"} : UnmountReadDir(p, f)
    \/ \E f \in {"none", "unmount"} : UnmountSyscall(p, f)
    \/ \E f \in {"none", "rm mountpoint", "rm workdir"} : UnmountPostUnmount(p, f)
    \/ \E f \in {"none", "remove"} : UnmountRemoveMarker(p, f)

\* The driver process dies at most MaxCrashes times and is not started again; the
\* requests served by another driver process go on.  A request that can take a
\* step takes one: every handler runs in a goroutine of its own, and a blocked
\* flock returns once the lock is free.
NextLive ==
    \/ NextDistinct
    \/ \E P \in SUBSET Procs, reboot \in BOOLEAN : Crash(P, reboot)

SpecLive == Init /\ [][NextLive]_vars /\ \A p \in Procs : WF_vars(RequestStep(p))

\* The step of lockedFile.Open in slot p: it waits in flock(LOCK_EX) while another
\* request holds the lock.
OpenStep(p) ==
    \/ \E f \in {"none", "flock"} : MountOpen(p, f)
    \/ \E f \in {"none", "flock"} : UnmountOpen(p, f)

\* Requests keep arriving.  Every system call returns: a request that can take a
\* step takes one.  The lock is granted fairly: a request that waits in
\* flock(LOCK_EX) while the lock is released again and again gets it.
SpecFair ==
    /\ Init /\ [][NextDistinct]_vars
    /\ \A p \in Procs : WF_vars(RequestStep(p)) /\ SF_vars(OpenStep(p))

\* The later version of the driver (activateVolume, deactivateVolume, Remove with
\* the forced unmount) run as one process: its death, which ends every request it
\* serves and leaves the kernel mounts in place, and its start.
NextActivate ==
    \/ \E p \in Procs, v \in Served, id \in IDs : CallMount(p, v, id)
    \/ \E v \in Served, volatile \in BOOLEAN : CreateNew(v, volatile)
    \/ \E v \in Served : RemoveForce(v, "none")
    \/ \E p \in Procs : MountGetVolumeInfo(p)
    \/ \E p \in Procs, f \in {"none", "flock"} : MountOpen(p, f)
    \/ \E p \in Procs, f \in {"none", "readdir"} : ActivateReadDir(p, f)
    \/ \E p \in Procs, f \in PreMountFaults(TRUE) : MountPreMount(p, f)
    \/ \E p \in Procs, f \in {"none", "mount"} : MountSyscall(p, f)
    \/ \E p \in Procs, f \in {"none", "create"} : MountCreateMarker(p, f)
    \/ \E p \in Procs, v \in Served, id \in IDs : CallUnmount(p, v, id)
    \/ \E p \in Procs, f \in {"none", "flock"} : DeactivateOpen(p, f)
    \/ \E p \in Procs, f \in {"none", "remove"} : DeactivateRemoveMarker(p, f)
    \/ \E p \in Procs, f \in {"none", "readdir"} : DeactivateReadDir(p, f)
    \/ \E p \in Procs, f \in {"none", "unmount"} : DeactivateSyscall(p, f)
    \/ \E p \in Procs, f \in {"none", "rm mountpoint", "rm workdir"} :
           DeactivatePostUnmount(p, f)
    \/ Crash({p \in Procs : pc[p] # "idle"}, FALSE)
    \/ \E f \in BootResetFaults : Boot(f)

SpecActivate == Init /\ [][NextActivate]_vars

\* The requests that manage a volume, beside Mount and Unmount with distinct IDs
\* and the death and start of the process: Create with failing system calls and
\* against a volume that exists, both versions of Remove, and Get.
NextAdmin ==
    \/ NextCrash
    \/ \E v \in Served, volatile \in BOOLEAN, f \in CreateFaults, g \in BOOLEAN :
           Create(v, ValidOptions(volatile), f, g)
    \/ \E v \in Served : Remove(v, "removeall")
    \/ \E v \in Served, f \in RemoveForceFaults : RemoveForce(v, f)
    \/ \E v \in Served, f \in {"none", "open"} : Get(v, f)

SpecAdmin == Init /\ [][NextAdmin]_vars

\* Every request of the driver on one volume, the death of the process and its
\* start; Mounts are issued one at a time.
NextAll ==
    \/ \E v \in Served, id \in IDs : CallMountDistinct(1, v, id)
    \/ Serve
    \/ \E P \in SUBSET Procs, reboot \in BOOLEAN : Crash(P, reboot)
    \/ \E f \in BootResetFaults : Boot(f)
    \/ \E v \in Served, volatile \in BOOLEAN, f \in CreateFaults, g \in BOOLEAN :
           Create(v, ValidOptions(volatile), f, g)
    \/ \E v \in Served, f \in {"none", "open"} : Get(v, f)
    \/ \E v \in Served : Path(v)
    \/ \E f \in {"none", "readdir root"} : List(f)

SpecAll == Init /\ [][NextAll]_vars

\* The names Create requests carry where nothing is mounted.
CreateNames == Names \ {"v2"}

\* Create requests with every name and every option map, Get and Remove, on a data
\* root where nothing is mounted.
NextCreate ==
    \/ \E name \in CreateNames, o \in Options : Create(name, o, "none", FALSE)
    \/ \E name \in CreateNames \cap Volumes, volatile \in BOOLEAN,
          f \in CreateFaults \ {"none"}, g \in BOOLEAN :
           Create(name, ValidOptions(volatile), f, g)
    \/ \E v \in CreateNames \cap Volumes, f \in {"none", "removeall"} : Remove(v, f)
    \/ \E v \in CreateNames \cap Volumes, f \in {"none", "open"} : Get(v, f)

SpecCreate == Init /\ [][NextCreate]_vars

\* Create requests that run side by side on an empty data root, one per slot, with
\* every option map.
NextRace ==
    \/ \E p \in Procs, name \in Volumes, o \in Options : CallCreate(p, name, o)
    \/ \E p \in Procs, f \in CreateFaults : CreateMkdirMain(p, f)
    \/ \E p \in Procs, f \in CreateFaults, g \in BOOLEAN : CreateMkdirInternal(p, f, g)
    \/ \E p \in Procs, f \in CreateFaults, g \in BOOLEAN : CreateWriteInfo(p, f, g)

SpecRace == Init /\ [][NextRace]_vars

\* The volume whose requests slot p serves, where every volume has a slot of its own.
SlotVolume(p) == IF p = 1 THEN "v1" ELSE "v2"

\* The state after Create of a volatile volume v1 and of a non-volatile volume v2
\* on an empty data root.
InitTwo ==
    LET made == [v \in Volumes |->
                    IF v \in {"v1", "v2"}
                    THEN CreateOutcome(NoTree, v, ValidOptions(v = "v1"), "none", FALSE).t
                    ELSE NoTree]
    IN  /\ tree = made
        /\ kmounts = [v \in Volumes |-> <<>>]
        /\ flocked = {}
        /\ opened = {}
        /\ pc = [p \in Procs |-> "idle"]
        /\ cvol = [p \in Procs |-> "v1"]
        /\ cid = [p \in Procs |-> 1]
        /\ thisVol = [p \in Procs |-> NoMeta]
        /\ cerr = [p \in Procs |-> FALSE]
        /\ result = "none"
        /\ listed = {}
        /\ createErr = [p \in Procs |-> "none"]
        /\ faults = 0
        /\ peekFailed = FALSE
        /\ down = FALSE
        /\ crashes = 0
        /\ uses = [v \in Volumes |-> [i \in IDs |-> 0]]
        /\ liveData = [v \in Volumes |-> {}]
        /\ hist = [v \in Volumes |->
                      IF v \in {"v1", "v2"}
                      THEN << <<"Create", IF v = "v1" THEN 1 ELSE 0, "ok">> >>
                      ELSE <<>>]
        /\ histOn = [v \in Volumes |-> v \in {"v1", "v2"}]

\* Two volumes, each with one request at a time, so that requests for different
\* volumes are served concurrently and requests for one volume never are.
NextTwo ==
    \/ \E p \in Procs, id \in IDs : CallMountDistinct(p, SlotVolume(p), id)
    \/ \E p \in Procs, id \in IDs : CallUnmount(p, SlotVolume(p), id)
    \/ \E p \in Procs : RequestStep(p)

SpecTwo == InitTwo /\ [][NextTwo]_vars

\* ============================================================ claims
\* A request is between its peek of activemounts/ and its return.
InCS(p) == pc[p] \in {"m_peek", "m_premount", "m_mount", "m_marker",
                      "u_peek", "u_umount", "u_post", "u_marker"}

\* hist[v] from position i on is Mount(id) that succeeded, then Unmount(id).
IsCycle(h, i) ==
    /\ h[i][1] = "Mount" /\ h[i][3] = "ok"
    /\ h[i + 1][1] = "Unmount" /\ h[i + 1][2] = h[i][2]

\* The tree as Create leaves it, apart from the contents of upper/.
PreMountState(v) ==
    /\ tree[v].main /\ tree[v].upperDir /\ tree[v].amDir
    /\ tree[v].markers = {}
    /\ ~tree[v].mountpoint /\ ~tree[v].workdir
    /\ ~Mounted(v)

\* C1: with distinct request IDs and no failed system call, whenever no Mount or
\* Unmount of a volume is being served, exactly one overlay is mounted at its
\* mountpoint/ if some ID is live, and none otherwise.  (Under SpecDistinct.)
C1_OneKernelMountWhileLive ==
    \A v \in Volumes :
        faults = 0 /\ Idle(v) => Len(kmounts[v]) = IF InUse(v) THEN 1 ELSE 0

\* Two IDs are live after Mounts that were served concurrently; one overlay is mounted.
C1_Witness ==
    \E v \in Volumes :
        /\ faults = 0 /\ Idle(v) /\ ~histOn[v]
        /\ \A i \in IDs : uses[v][i] = 1
        /\ tree[v].markers = IDs
        /\ Len(kmounts[v]) = 1

\* C2: whenever no Mount or Unmount of a volume is being served (no failed system
\* call, no crash), activemounts/ is non-empty iff an overlay is mounted at mountpoint/.
C2_MarkersIffMounted ==
    \A v \in Volumes :
        faults = 0 /\ Idle(v) => (tree[v].markers # {} <=> Mounted(v))

\* C3: even after a failed kernel mount, kernel unmount, marker creation or marker
\* removal (every listing of activemounts/ having succeeded), the driver is never
\* left, with no call in progress, with a non-empty activemounts/ and nothing
\* mounted at mountpoint/.  (Under SpecDistinct.)
C3_NeverMarkersWithoutMount ==
    \A v \in Volumes :
        Idle(v) /\ ~peekFailed /\ tree[v].markers # {} => Mounted(v)

\* C4: when Mount of a volatile volume issues the kernel mount, upper/ is empty.
C4_VolatileUpperEmptyAtMount ==
    \A p \in Procs :
        pc[p] = "m_mount" /\ thisVol[p].Volatile => tree[cvol[p]].upper = {}

\* A fresh activation of a volatile volume is about to mount; what the previous
\* activation wrote is gone.
C4_Witness ==
    \E p \in Procs :
        /\ pc[p] = "m_mount" /\ thisVol[p].Volatile
        /\ liveData[cvol[p]] # {}
        /\ tree[cvol[p]].upper = {}

\* C5: no step taken while a volume's metadata says non-volatile (so: no step of
\* Mount or Unmount) removes upper/ or a file in it.
C5_NonVolatileUpperKept ==
    [][\A v \in Volumes :
          /\ tree[v].metadata \in VolumeInfo
          /\ ~tree[v].metadata.Volatile
          /\ tree'[v].metadata = tree[v].metadata
          => /\ tree[v].upper \subseteq tree'[v].upper
             /\ tree[v].upperDir => tree'[v].upperDir]_vars

\* A later activation of a non-volatile volume is about to mount; what the previous
\* activation wrote is still in upper/.
C5_Witness ==
    \E p \in Procs :
        /\ pc[p] = "m_mount" /\ thisVol[p] \in VolumeInfo /\ ~thisVol[p].Volatile
        /\ ~Mounted(cvol[p])
        /\ liveData[cvol[p]] # {}
        /\ liveData[cvol[p]] \subseteq tree[cvol[p]].upper

\* C6: a Mount that finds activemounts/ non-empty goes straight to the creation of
\* its marker, changing neither the tree nor the kernel's mounts; and the creation
\* of the marker changes nothing but the set of markers, by the request's own ID.
C6_JoinOnlyCreatesMarker ==
    [][\A p \in Procs :
          /\ (pc[p] = "m_peek" /\ pc'[p] # "m_peek" /\ tree[cvol[p]].markers # {})
             => (pc'[p] = "m_marker" /\ tree' = tree /\ kmounts' = kmounts)
          /\ (pc[p] = "m_marker" /\ pc'[p] # "m_marker")
             => /\ kmounts' = kmounts
                /\ tree' \in {tree, [tree EXCEPT ![cvol[p]].markers = @ \cup {cid[p]}]}]_vars

\* A Mount of a volatile volume has joined an activation and is about to create its
\* marker; upper/ still holds what was written.
C6_Witness ==
    \E p \in Procs :
        /\ pc[p] = "m_marker" /\ thisVol[p].Volatile
        /\ faults = 0
        /\ tree[cvol[p]].markers # {} /\ cid[p] \notin tree[cvol[p]].markers
        /\ tree[cvol[p]].upper # {}
        /\ Len(kmounts[cvol[p]]) = 1

\* C7: for a volatile volume, after Mount(X), Mount(X) again, Unmount(X) -- the
\* container of the first Mount(X) still running -- and then possibly Mount(Y), the
\* overlay is still mounted and upper/ still holds what the container wrote.
C7_ReusedIdKeepsOverlay ==
    \A v \in Volumes :
        LET h == hist[v]
        IN  /\ histOn[v] /\ Idle(v) /\ Len(h) \in {4, 5}
            /\ h[1] = <<"Create", 1, "ok">>
            /\ h[2][1] = "Mount" /\ h[2][3] = "ok"
            /\ h[3] = h[2]
            /\ h[4][1] = "Unmount" /\ h[4][2] = h[2][2]
            /\ Len(h) = 5 => h[5][1] = "Mount" /\ h[5][2] # h[2][2]
            => Mounted(v) /\ liveData[v] \subseteq tree[v].upper

C9_MountUnmountRestores ==
    \A v \in Volumes :
        LET h == hist[v]
        IN  /\ histOn[v] /\ Idle(v) /\ Len(h) \in {3, 5}
            /\ \A i \in {2, 4} : i < Len(h) => IsCycle(h, i)
            => /\ h[Len(h)][3] = "ok"
               /\ PreMountState(v)
               /\ tree[v].metadata = [BaseDirPath |-> "/base", Volatile |-> h[1][2] = 1]

\* Two Mount/Unmount pairs have been served after Create.
C9_Witness ==
    \E v \in Volumes :
        /\ histOn[v] /\ Idle(v) /\ Len(hist[v]) = 5
        /\ IsCycle(hist[v], 2) /\ IsCycle(hist[v], 4)

\* C10: no two requests for the same volume are between their peek and their
\* return at once, and a request is there exactly while it holds the lock.
C10_MutualExclusion ==
    /\ \A p, q \in Procs : p # q /\ InCS(p) /\ InCS(q) => cvol[p] # cvol[q]
    /\ \A p \in Procs : InCS(p) <=> p \in flocked

\* One request is about to issue the kernel mount while another one for the same
\* volume waits for the lock.
C10_Witness ==
    \E p, q \in Procs :
        /\ pc[p] = "m_mount" /\ pc[q] \in {"m_open", "u_open"}
        /\ cvol[p] = cvol[q] /\ tree[cvol[q]].amDir

\* What Mount and Unmount read and write of a volume's tree: everything but the
\* files containers put into upper/.
DriverView(t) == [t EXCEPT !.upper = {}]

\* C11: Mount and Unmount calls on one volume take effect one at a time, in the order
\* in which they took the lock: while calls on an existing volume are in progress,
\* every step that changes its markers, directories or kernel mounts is a step of
\* the one call that holds its lock; and what a call reads before it takes the lock
\* (the main directory, activemounts/ as a directory, the metadata) is changed by no
\* step, so it is still what is on disk when the call takes the lock.
C11_SerialByLock ==
    [][\A v \in Volumes :
          LET holders == {p \in flocked : cvol[p] = v}
              movers == {p \in Busy(v) : pc'[p] # pc[p]}
          IN  /\ (/\ tree[v].main /\ ~Idle(v)
                  /\ \/ kmounts'[v] # kmounts[v]
                     \/ DriverView(tree'[v]) # DriverView(tree[v]))
                 => movers # {} /\ holders = movers
              /\ tree[v].main /\ ~Idle(v)
                 => /\ tree'[v].main /\ tree'[v].amDir = tree[v].amDir
                    /\ tree'[v].metadata = tree[v].metadata
              /\ \A p \in Busy(v) :
                    pc[p] = "m_open" /\ pc'[p] = "m_peek"
                    => thisVol[p] = getVolumeInfo(tree[v])]_vars

\* An Unmount has detached the overlay and not yet removed its marker, while a Mount
\* of the same volume waits for the lock.
C11_Witness ==
    \E p, q \in Procs :
        /\ pc[p] = "u_post" /\ pc[q] = "m_open" /\ cvol[p] = cvol[q]
        /\ p \in flocked /\ q \notin flocked
        /\ tree[cvol[p]].markers # {} /\ ~Mounted(cvol[p])

C13_FailedMarkerKeepsMount ==
    [][\A p \in Procs :
          pc[p] = "m_marker" /\ pc'[p] # "m_marker" /\ result' # "ok"
          => /\ pc'[p] = "idle" /\ result' = "critical error"
             /\ tree' = tree /\ kmounts' = kmounts
             /\ tree[cvol[p]].markers = {} /\ ~peekFailed => Mounted(cvol[p])']_vars

\* A Mount that mounted the overlay afresh has just returned the marker error: the
\* overlay is mounted and activemounts/ is empty.
C13_Witness ==
    \E v \in Volumes :
        /\ result = "critical error" /\ faults = 1 /\ Idle(v)
        /\ Len(kmounts[v]) = 1 /\ tree[v].markers = {}
        /\ tree[v].mountpoint /\ tree[v].workdir

C15_FailedMountNoMarker ==
    [][\A p \in Procs :
          /\ (pc[p] = "m_mount" /\ pc'[p] # "m_mount"
              /\ kmounts'[cvol[p]] = kmounts[cvol[p]])
             => /\ pc'[p] = "idle" /\ result' = "mount error" /\ p \notin flocked'
                /\ tree' = tree /\ tree'[cvol[p]].markers = {}
          /\ (pc[p] = "m_peek" /\ pc'[p] # "m_peek"
              /\ tree[cvol[p]].markers = {} /\ faults' = faults)
             => pc'[p] = "m_premount"]_vars

\* A Mount has just returned the error of a failed syscall.Mount: nothing is
\* mounted, activemounts/ is empty, and the directories of the overlay are there.
C15_Witness ==
    \E v \in Volumes :
        /\ result = "mount error" /\ faults = 1 /\ Idle(v)
        /\ ~Mounted(v) /\ tree[v].markers = {}
        /\ tree[v].mountpoint /\ tree[v].workdir /\ tree[v].upperDir

\* The start of the driver process has completed in this step.
BootCompletes == down /\ ~down'

\* C16: when the start of the driver process has completed (no system call ever
\* failed, no request of another process in progress), every volume with nothing
\* mounted at mountpoint/ has an empty activemounts/, no mountpoint/ and no
\* workdir/, wherever in a Mount or an Unmount the previous process died.
C16_BootResetRestores ==
    [][BootCompletes /\ faults' = 0 /\ (\A p \in Procs : pc[p] = "idle") =>
          \A v \in Volumes :
              tree'[v].main /\ kmounts'[v] = <<>>
              => /\ tree'[v].markers = {}
                 /\ ~tree'[v].mountpoint /\ ~tree'[v].workdir]_vars

\* NewDockerOnTop has gone through the data root in this step.
BootStep == down /\ result' \in {"boot cleaned", "boot clean", "boot busy", "boot error"}

\* C17: for a volume whose mountpoint/ exists with nothing mounted on it, boot reset
\* removes mountpoint/, then removes activemounts/ with every marker and makes it
\* anew, then removes workdir/: what it leaves is the result of the first zero to
\* four of these steps, all four unless a system call failed, and fewer than four
\* only together with an error that ends the start of the process.
C17_BootResetInOrder ==
    [][BootStep =>
          \A v \in Volumes :
              tree[v].main /\ tree[v].mountpoint /\ kmounts[v] = <<>>
              => LET t == tree[v]
                     t1 == [t EXCEPT !.mountpoint = FALSE]
                     t2 == [t1 EXCEPT !.amDir = FALSE, !.markers = {}]
                     t3 == [t2 EXCEPT !.amDir = TRUE]
                     t4 == [t3 EXCEPT !.workdir = FALSE]
                 IN  /\ tree'[v] \in {t, t1, t2, t3, t4}
                     /\ faults' = faults => tree'[v] = t4 /\ result' # "boot error"
                     /\ tree'[v] # t4 => result' = "boot error" /\ down']_vars

\* NewDockerOnTop has just reset a volume ("dirty, cleaned successfully") whose
\* container wrote to it before the machine went down.
C17_Witness ==
    \E v \in Volumes :
        /\ result = "boot cleaned" /\ ~down /\ crashes = 1
        /\ tree[v].main /\ tree[v].amDir /\ tree[v].markers = {}
        /\ ~tree[v].mountpoint /\ ~tree[v].workdir /\ ~Mounted(v)
        /\ liveData[v] # {} /\ liveData[v] \subseteq tree[v].upper

\* C18: boot reset changes no volume's upper/ or metadata and no kernel mount; a
\* volume whose mountpoint/ carries a mount or does not exist is left exactly as it
\* is; and when every volume found is such a volume, the start of the process
\* completes.
C18_BootResetFrame ==
    [][BootStep =>
          /\ kmounts' = kmounts
          /\ \A v \in Volumes :
                /\ tree'[v].main = tree[v].main
                /\ tree'[v].metadata = tree[v].metadata
                /\ tree'[v].upperDir = tree[v].upperDir
                /\ tree'[v].upper = tree[v].upper
                /\ (~tree[v].mountpoint \/ kmounts[v] # <<>>) => tree'[v] = tree[v]
          /\ (\A v \in Volumes : ~tree[v].mountpoint \/ kmounts[v] # <<>>) => ~down']_vars

\* NewDockerOnTop has just found a volume still mounted: its marker, workdir/ and
\* the files in upper/ are in place.
C18_Witness ==
    \E v \in Volumes :
        /\ result = "boot busy" /\ ~down /\ crashes = 1
        /\ Len(kmounts[v]) = 1 /\ tree[v].markers # {}
        /\ tree[v].mountpoint /\ tree[v].workdir /\ tree[v].upper # {}

\* C19: whenever no Mount or Unmount of a volume is in progress and its main
\* directory exists, its metadata.json, upper/ and activemounts/ exist.
C19_TreeComplete ==
    \A v \in Volumes :
        Idle(v) /\ tree[v].main
        => tree[v].metadata \in VolumeInfo /\ tree[v].upperDir /\ tree[v].amDir

\* The request holds the lock and is about to mount an overlay beyond MaxStack.
AtStackBound(p) == pc[p] = "m_mount" /\ p \in flocked /\ Len(kmounts[cvol[p]]) = MaxStack

\* C20: once the driver process has died -- dropping the locks its requests held --
\* every request of another process that waits for the lock of activemounts/ gets
\* it and returns (or, having got it, is about to mount beyond the model's MaxStack).
C20_CrashedHolderFreesLock ==
    \A p \in Procs :
        (crashes > 0 /\ pc[p] \in {"m_open", "u_open"})
            ~> (pc[p] = "idle" \/ AtStackBound(p))

\* The process of a Mount that held the lock died between the kernel mount and the
\* creation of the marker, while another Mount of the volume waits for the lock.
C20_Witness ==
    \E p \in Procs :
        /\ crashes = 1 /\ faults = 0 /\ pc[p] = "m_open" /\ flocked = {}
        /\ tree[cvol[p]].amDir /\ tree[cvol[p]].markers = {}
        /\ Len(kmounts[cvol[p]]) = 1

\* C21: a request that is not between its successful lockedFile.Open and its return
\* (none being served, or one that has returned by any path, or one whose Open has
\* failed, or one that has not yet passed Open) holds no lock on activemounts/ and
\* has no open handle of it; and a lock is held only through an open handle.
C21_LockReleasedOnExit ==
    \A p \in Procs :
        /\ ~InCS(p) => p \notin flocked /\ p \notin opened
        /\ p \in flocked => p \in opened

\* A request has just returned the error of a failed flock while another request
\* for the same volume holds the lock.
C21_Witness ==
    \E q \in Procs :
        /\ result = "flock error" /\ faults = 1
        /\ pc[q] \in {"m_premount", "u_umount"} /\ flocked = {q} /\ opened = {q}
        /\ \A p \in Procs \ {q} : pc[p] = "idle"

\* The request in slot p is at lockedFile.Open, its activemounts/ exists, and no
\* request for the same volume holds the lock.
AtFreeLock(p) ==
    /\ pc[p] \in {"m_open", "u_open"}
    /\ tree[cvol[p]].amDir
    /\ \A q \in flocked : cvol[q] # cvol[p]

\* C22: requests for different volumes do not contend and do not touch each other's
\* volume: a request at lockedFile.Open whose volume's lock is free can take it at
\* once, whatever locks of other volumes are held; and a step of a request for one
\* volume leaves the tree (markers included) and the kernel mounts of every other
\* volume as they are.  (Under SpecTwo.)
C22_VolumesIndependent ==
    /\ [](\A p \in Procs :
             AtFreeLock(p) =>
                 ENABLED (MountOpen(p, "none") \/ UnmountOpen(p, "none")))
    /\ [][\A p \in Procs :
             pc[p] # "idle" /\ pc'[p] # pc[p]
             => \A w \in Volumes \ {cvol[p]} :
                    tree'[w] = tree[w] /\ kmounts'[w] = kmounts[w]]_vars

\* A Mount of one volume is at lockedFile.Open while an Unmount of the other volume,
\* holding that volume's lock, is about to detach its overlay.
C22_Witness ==
    \E p, q \in Procs :
        /\ pc[p] = "m_open" /\ pc[q] = "u_umount"
        /\ cvol[p] # cvol[q] /\ q \in flocked
        /\ Mounted(cvol[q]) /\ tree[cvol[p]].amDir

\* C23: when Remove, in either version, has returned without error, the volume's
\* main directory does not exist and nothing is mounted at its mountpoint/.
\* (Under SpecAdmin.)
C23_RemovedIsGone ==
    \A v \in Served :
        result \in {"removed", "removed after unmount"}
            => ~tree[v].main /\ ~tree[v].mountpoint /\ kmounts[v] = <<>>

\* Remove has just returned without error after it found mountpoint/ busy and
\* detached the overlay that a failed Mount or Unmount had left there.
C23_Witness ==
    \E v \in Served :
        /\ result = "removed after unmount" /\ faults = 1
        /\ tree[v] = NoTree /\ kmounts[v] = <<>>

\* C24: when the Remove that force-unmounts finds mountpoint/ busy and the unmount
\* fails, it returns that error and leaves the tree and the kernel mounts of the
\* volume as they were.  (Under SpecAdmin.)
C24_FailedForceUnmountChangesNothing ==
    [][result' = "remove unmount error" => tree' = tree /\ kmounts' = kmounts]_vars

\* Remove has just returned the error of the failed forced unmount: the overlay is
\* still mounted and the tree is whole.
C24_Witness ==
    \E v \in Served :
        /\ result = "remove unmount error" /\ faults = MaxFaults
        /\ Mounted(v) /\ tree[v].mountpoint
        /\ tree[v].main /\ tree[v].metadata \in VolumeInfo
        /\ tree[v].upperDir /\ tree[v].amDir

\* The answers of Get.
GetResults == {"found", "get no such volume", "get error"}

\* C25: Get answers "no such volume" exactly when the volume's main directory does
\* not exist, and succeeds when it exists (unless the Open itself fails for another
\* reason); so the Get that follows a successful Create succeeds, and the Get that
\* follows a successful Remove answers "no such volume".  (Under SpecAdmin.)
C25_GetIffMainExists ==
    [][\A v \in Served :
          result' \in GetResults =>
              /\ result' = "get no such volume" <=> ~tree[v].main
              /\ faults' = faults => (result' = "found" <=> tree[v].main)
              /\ result = "created" => result' # "get no such volume"
              /\ result \in {"removed", "removed after unmount"}
                     => result' = "get no such volume"
              /\ tree' = tree /\ kmounts' = kmounts]_vars

\* Get has just answered "no such volume" for a volume that was created, mounted,
\* written to, unmounted and removed.
C25_Witness ==
    \E v \in Served :
        /\ result = "get no such volume" /\ faults = 0 /\ crashes = 0
        /\ liveData[v] # {} /\ tree[v] = NoTree

\* C26: a Mount that finds no metadata.json returns "no such volume" in that very
\* step, before lockedFile.Open: it holds no lock and no handle, and the trees and
\* the kernel mounts are as they were; a Mount that finds metadata.json goes on to
\* lockedFile.Open.  (Under SpecAdmin.)
C26_MountOfMissingVolume ==
    [][\A p \in Procs :
          pc[p] = "m_info" /\ pc'[p] # "m_info" /\ crashes' = crashes =>
              IF getVolumeInfo(tree[cvol[p]]) = NoMeta
              THEN /\ pc'[p] = "idle" /\ result' = "no such volume"
                   /\ tree' = tree /\ kmounts' = kmounts
                   /\ flocked' = flocked /\ opened' = opened
                   /\ p \notin flocked /\ p \notin opened
              ELSE pc'[p] = "m_open" /\ thisVol'[p] = tree[cvol[p]].metadata]_vars

\* Mount has just answered "no such volume" for a half-made volume: its main
\* directory and activemounts/ exist, metadata.json does not.
C26_Witness ==
    \E v \in Served :
        /\ result = "no such volume" /\ flocked = {} /\ opened = {}
        /\ tree[v].main /\ tree[v].amDir /\ tree[v].metadata = NoMeta
        /\ tree[v].markers = {} /\ ~tree[v].mountpoint /\ ~Mounted(v)

\* C27: a Create with a valid name and valid options for a volume whose main
\* directory exists answers "volume already exists" and changes nothing: every
\* tree (metadata, upper/ contents, activemounts/ markers), the kernel mounts and
\* the locks are as before; Create answers otherwise only when the main directory
\* did not exist.  (Under SpecAdmin, whose Creates all carry valid options.)
C27_CreateOfExistingVolume ==
    [][\A v \in Served :
          /\ result' = "volume already exists" =>
                /\ tree[v].main
                /\ tree' = tree /\ kmounts' = kmounts /\ liveData' = liveData
                /\ flocked' = flocked /\ opened' = opened /\ pc' = pc
          /\ result' \in {"created", "create error", "create error, destroy failed"} =>
                ~tree[v].main]_vars

\* Create has just been refused for a volume that is mounted and in use.
C27_Witness ==
    \E v \in Served :
        /\ result = "volume already exists"
        /\ Mounted(v) /\ tree[v].markers # {} /\ tree[v].metadata # NoMeta
        /\ tree[v].upperDir /\ tree[v].amDir

\* The user errors of Create: the request was refused by validation.
CreateUserErrors ==
    {"name has slashes", "illegal name", "invalid option", "no base", "base not absolute",
     "base has comma or colon", "base does not exist", "base inaccessible",
     "invalid volatile"}

\* The errors of Create after which nothing of its work is left.
CreateCleanErrors == CreateUserErrors \cup {"volume already exists", "create error"}

C30_MetadataWrittenOnce ==
    /\ [](\A p \in Procs :
             pc[p] \in MountPcs \ {"m_info"} =>
                 thisVol[p] \in VolumeInfo /\ thisVol[p] = tree[cvol[p]].metadata)
    /\ [][\A v \in Volumes :
             /\ tree'[v].metadata # tree[v].metadata =>
                   \/ /\ result' = "created"
                      /\ ~tree[v].main /\ tree[v].metadata = NoMeta
                   \/ /\ result' \in {"removed", "remove error"}
                      /\ tree'[v].metadata = NoMeta
             /\ result' = "created" /\ tree'[v] # tree[v] =>
                   /\ tree'[v].metadata.BaseDirPath = ValidOptions(TRUE)["base"]
                   /\ tree'[v].metadata.Volatile = (hist'[v][1][2] = 1)]_vars

\* After a death of the process and the boot reset, a Mount of a volatile volume is
\* about to call mount(2) with the metadata Create wrote.
C30_Witness ==
    \E p \in Procs :
        /\ pc[p] = "m_mount" /\ thisVol[p].Volatile /\ thisVol[p].BaseDirPath = "/base"
        /\ thisVol[p] = tree[cvol[p]].metadata
        /\ crashes = 1 /\ ~down /\ faults = 0

\* C31: a List that succeeds returns exactly the names of the entries of the data
\* root, whatever requests, failures and restarts came before: every volume that
\* has its metadata (created, and not removed since) is among them; a name leaves
\* the entries only in a step of Remove and enters them only in a step of Create;
\* the death of the driver process and NewDockerOnTop leave the entries, and so
\* the answer of List, as they were.  (Under SpecAll.)
C31_ListIsDataRoot ==
    [][/\ result' = "listed" =>
            /\ listed' = {v \in Volumes : tree[v].main}
            /\ \A v \in Volumes : tree[v].metadata # NoMeta => v \in listed'
            /\ tree' = tree /\ kmounts' = kmounts
       /\ \A v \in Volumes :
            /\ tree[v].main /\ ~tree'[v].main => result' \in {"removed", "remove error"}
            /\ ~tree[v].main /\ tree'[v].main =>
                   result' \in {"created", "create error, destroy failed"}
       /\ (crashes' # crashes \/ down) => ListOutcome(tree') = ListOutcome(tree)]_vars

\* After a death of the driver process and its restart, List has just named the
\* volume that was created before it, which is mounted.
C31_Witness ==
    /\ result = "listed" /\ listed = {"v1"}
    /\ crashes = 1 /\ ~down
    /\ tree["v1"].metadata # NoMeta /\ Mounted("v1")

\* C32: in the version with activateVolume and deactivateVolume, in every state
\* (between any two statements of any Mount and Unmount, after a failed system
\* call, after the death of the driver process at any statement and after its
\* start) a volume that has a marker file in activemounts/ has its overlay mounted.
\* (Under SpecActivate.)
C32_MarkerOnlyWhileMounted ==
    \A v \in Volumes : tree[v].markers # {} => Mounted(v)

\* The driver process died inside deactivateVolume after removing the last marker
\* and before the kernel unmount, and was started again: the overlay is mounted
\* and activemounts/ is empty.
C32_Witness ==
    \E v \in Served :
        /\ crashes = 1 /\ ~down /\ faults = 0
        /\ Mounted(v) /\ tree[v].amDir /\ tree[v].markers = {}
        /\ tree[v].mountpoint /\ Idle(v) /\ result = "boot busy"

\* C33: when volumeTreePostUnmount failed after the kernel unmount and the removal
\* of the marker does not fail, Unmount removes the caller's marker, returns the
\* cleanup error and releases the lock; the kernel unmount is not undone,
\* activemounts/ is empty, and the next Mount that lists it mounts the overlay
\* afresh.  (Under SpecDistinct.)
C33_CleanupErrorStillRemovesMarker ==
    [][\A p \in Procs :
          pc[p] = "u_marker" /\ cerr[p] /\ pc'[p] = "idle" /\ faults' = faults =>
              LET v == cvol[p]
              IN  /\ result' = "cleanup error"
                  /\ cid[p] \notin tree'[v].markers
                  /\ tree'[v].markers = {}
                  /\ MountPeek(tree'[v], "none") = "m_premount"
                  /\ kmounts' = kmounts
                  /\ p \notin flocked' /\ p \notin opened']_vars

\* Unmount has just returned the cleanup error: the removal of mountpoint/ failed,
\* so the directory is left behind, the overlay is unmounted and no marker is left.
C33_Witness ==
    \E v \in Served :
        /\ result = "cleanup error" /\ faults = 1
        /\ ~Mounted(v) /\ tree[v].markers = {} /\ tree[v].mountpoint /\ ~tree[v].workdir
        /\ flocked = {}

C35_FailedListingFailsMount ==
    [][\A p \in Procs :
          pc[p] = "m_peek" /\ pc'[p] # "m_peek" /\ faults' # faults =>
              /\ pc'[p] = "idle" /\ result' = "internal error"
              /\ tree' = tree /\ kmounts' = kmounts
              /\ p \notin flocked']_vars

\* C36: an Unmount issues the kernel unmount only when activemounts/ holds no
\* marker but the caller's: with the caller's marker absent and a marker of
\* another ID present, the overlay stays mounted.
C36_AbsentMarkerNeverUnmounts ==
    [][\A p \in Procs :
          pc[p] = "u_umount" /\ kmounts'[cvol[p]] # kmounts[cvol[p]] =>
              tree[cvol[p]].markers \subseteq {cid[p]}]_vars

\* C37: a boot reset that runs while a request holds the lock of a volume leaves
\* that volume's activemounts/, mountpoint/ and workdir/ as they are and the lock
\* in force, and at no time are two requests of one volume past lockedFile.Open
\* together.
C37_BootResetKeepsLockedVolume ==
    /\ [](\A p, q \in Procs :
             p # q /\ p \in opened /\ q \in opened => cvol[p] # cvol[q])
    /\ [][BootStep =>
             \A p \in flocked :
                 /\ tree'[cvol[p]] = tree[cvol[p]]
                 /\ p \in flocked']_vars

\* C38: two Create requests for the same name, both with valid options, on a data
\* root that does not have the volume, no system call failed by the environment:
\* once both have returned, one has returned success and the other "volume already
\* exists", and metadata.json holds the VolumeInfo of the one that succeeded; while
\* only one of them has returned "volume already exists", the other is the one that
\* made the main directory.  (Under SpecRace.)
C38_OneCreateWins ==
    \A p, q \in Procs :
        /\ p # q /\ faults = 0 /\ cvol[p] = cvol[q]
        /\ pc[q] \in CreatePcs \/ createErr[q] \notin CreateUserErrors \cup {"none"}
        /\ pc[p] = "idle" /\ createErr[p] \notin CreateUserErrors \cup {"none"}
        => /\ createErr[p] \in {"created", "volume already exists"}
           /\ createErr[p] = "volume already exists" =>
                \/ pc[q] \in CreatePcs \ {"c_main"}
                \/ createErr[q] = "created" /\ tree[cvol[q]].metadata = thisVol[q]
           /\ createErr[p] = "created" =>
                /\ tree[cvol[p]].metadata = thisVol[p]
                /\ pc[q] = "c_main" \/ createErr[q] = "volume already exists"

\* Both requests for v1 have returned, the one that asked for a volatile volume with
\* success, the other with "volume already exists", and the volume is volatile.
C38_Witness ==
    /\ faults = 0
    /\ pc = [p \in Procs |-> "idle"]
    /\ cvol[1] = "v1" /\ cvol[2] = "v1"
    /\ thisVol[1].Volatile /\ ~thisVol[2].Volatile
    /\ thisVol[2] # NoMeta
    /\ createErr[1] = "created" /\ createErr[2] = "volume already exists"
    /\ tree["v1"].metadata = thisVol[1]

\* C39: every Mount and every Unmount that was called returns (or, holding the lock,
\* is about to mount beyond the model's MaxStack), given that every system call
\* returns and that the lock is granted fairly.  (Under SpecFair.)
C39_EveryCallReturns ==
    \A p \in Procs : (pc[p] # "idle") ~> (pc[p] = "idle" \/ AtStackBound(p))

\* A request waits in lockedFile.Open for the lock that another request for the same
\* volume holds.
C39_Witness ==
    \E p, q \in Procs :
        /\ p # q /\ cvol[p] = cvol[q]
        /\ pc[p] \in {"m_open", "u_open"} /\ tree[cvol[p]].amDir
        /\ q \in flocked /\ InCS(q)

====
